---- MODULE Spec2Model ----
(***************************************************************************)
(* badgerhold: a secondary-index and query layer over a transactional      *)
(* key-value store.  The store holds records of one type with the fields   *)
(* Key (a plain field that carries the record's primary key, as in the     *)
(* test fixture; not indexed), Name (unique index) and Category (index).   *)
(*                                                                         *)
(* The state is the committed contents of the store, together with the     *)
(* last top-level call, its result, and the contents before it.  Spec has  *)
(* one caller writing and calling Find; WriteSpec and OrSpec restrict it.  *)
(* KeySpec has callers storing a type with a declared key field,           *)
(* QuerySpec callers of FindOne and Count, MatchSpec callers passing       *)
(* hinted queries to UpdateMatching and DeleteMatching.  ConcSpec and      *)
(* SeqSpec have goroutines whose calls run in concurrent transactions.     *)
(* EachSpec has callers of ForEach, IntoSpec callers of Find with a filled *)
(* result slice, ReadSpec readers of a type with a key field, TxnSpec a    *)
(* caller working through transactions of its own, SubSpec queries whose   *)
(* MatchFunc starts a SubQuery.  KindSpec, MatchesSpec and BuildSpec apply *)
(* Criterion.test, Query.Matches and the query builder to their inputs.    *)
(* RemoveSpec has a caller of RemoveIndex on the engine's keys; ScanSpec    *)
(* takes UpdateMatching and DeleteMatching step by step, AggSpec the sink  *)
(* of FindAggregate, CursorSpec the iterator under a scan; MarkSpec and    *)
(* OrderSpec run queries in the seven executions and in every order of     *)
(* their field criteria.  FairSpec has the goroutines of ConcSpec under a  *)
(* fair scheduler, each call a transaction that begins, ends and retries.  *)
(***************************************************************************)
EXTENDS Integers, Sequences, FiniteSets, TLC

\* ------------------------------------------------------------------ bounds
MaxKey == 2
MaxName == 3
MaxVal == 2
MaxIn == 2
MaxSkip == 2
MaxLimit == 2
MaxSeq == 3
MaxProcs == 2
MaxTx == 2
MaxQueries == 2

Keys == 1..MaxKey
Names == 1..MaxName
Vals == 1..MaxVal

\* The data a caller passes to Insert / Update / Upsert.  Bad tells how the
\* value behaves in the codec and the index functions: "ok", "noEncode" (the
\* Encoder returns an error), "noIndex" (the type's IndexFunc returns an error).
BadData == [Name : {1}, Category : {1}, Bad : {"noEncode", "noIndex"}]
Data == [Name : Names, Category : Vals, Bad : {"ok"}] \cup BadData

\* The data of a type whose Key field is declared as the key field
\* (badgerholdKey): the field holds whatever the caller put there, 0 being
\* the zero value.
KeyVals == 0..MaxKey
KeyedData == [Key : KeyVals, Name : Names, Category : {1}, Bad : {"ok"}]
hasKeyField(d) == "Key" \in DOMAIN d

\* the record stored under key for data: the encoding of data's fields
Stored(key, d) ==
    [Key |-> IF hasKeyField(d) THEN d.Key ELSE key,
     Name |-> d.Name, Category |-> d.Category]

\* Storer.Indexes(): index name -> Index{IndexFunc, Unique}
Indexes == [Category |-> [Unique |-> FALSE], Name |-> [Unique |-> TRUE]]
IndexNames == DOMAIN Indexes
\* `for name, index := range indexes` visits a Go map in any order
IndexOrders == {<<"Category", "Name">>, <<"Name", "Category">>}

\* ------------------------------------------------------------- map helpers
Put(m, k, v) == [x \in (DOMAIN m) \cup {k} |-> IF x = k THEN v ELSE m[x]]
Del(m, k) == [x \in (DOMAIN m) \ {k} |-> m[x]]
Has(m, k) == k \in DOMAIN m
EmptyMap == [x \in {} |-> 0]

\* The contents of the key-value store as one transaction sees it:
\* data: primary key -> record, index: index name -> (field value -> KeyList)
EmptyStore == [data |-> EmptyMap, index |-> [n \in IndexNames |-> EmptyMap]]

\* ----------------------------------------------------------------- KeyList
RECURSIVE KeyListIn(_, _)
KeyListIn(list, k) ==
    IF list = <<>> THEN FALSE
    ELSE IF Head(list) = k THEN TRUE ELSE KeyListIn(Tail(list), k)

RECURSIVE KeyListAdd(_, _)
KeyListAdd(list, k) ==
    IF list = <<>> THEN <<k>>
    ELSE IF Head(list) = k THEN list
    ELSE IF Head(list) > k THEN <<k>> \o list
    ELSE <<Head(list)>> \o KeyListAdd(Tail(list), k)

RECURSIVE KeyListRemove(_, _)
KeyListRemove(list, k) ==
    IF list = <<>> THEN <<>>
    ELSE IF Head(list) = k THEN Tail(list)
    ELSE <<Head(list)>> \o KeyListRemove(Tail(list), k)

\* ----------------------------------------------------------- index manager
\* One index of one record; bad tells whether the type's IndexFunc fails.
\* Result [st, err].
indexUpdate(st, name, key, value, bad, delete) ==
    IF bad = "noIndex" THEN [st |-> st, err |-> "IndexFuncError"]
    ELSE
      LET v == value[name]
          entries == st.index[name]
          old == IF Has(entries, v) THEN entries[v] ELSE <<>>
      IN  IF ~delete /\ Indexes[name].Unique /\ old # <<>> /\ old # <<key>>
          THEN [st |-> st, err |-> "ErrUniqueExists"]
          ELSE
            LET new == IF delete THEN KeyListRemove(old, key)
                       ELSE IF Indexes[name].Unique THEN <<key>>
                       ELSE KeyListAdd(old, key)
                ents == IF new = <<>> THEN Del(entries, v) ELSE Put(entries, v, new)
            IN  [st |-> [st EXCEPT !.index[name] = ents], err |-> "nil"]

RECURSIVE indexLoop(_, _, _, _, _, _)
indexLoop(st, order, key, value, bad, delete) ==
    IF order = <<>> THEN [st |-> st, err |-> "nil"]
    ELSE LET r == indexUpdate(st, Head(order), key, value, bad, delete)
         IN  IF r.err # "nil" THEN r
             ELSE indexLoop(r.st, Tail(order), key, value, bad, delete)

indexAdd(st, order, key, value, bad) == indexLoop(st, order, key, value, bad, FALSE)

indexDelete(st, order, key, value, bad) == indexLoop(st, order, key, value, bad, TRUE)

encode(data) == IF data.Bad = "noEncode" THEN "EncodeError" ELSE "nil"

\* ------------------------------------------------------------------ put.go
\* Each Tx operation takes the transaction's view st and returns
\* [st, err]: the view after the writes it issued, and its return value.
\* TxInsert that does not look for an existing record under key
TxInsertOverwrite(st, order, key, data) ==
    IF encode(data) # "nil" THEN [st |-> st, err |-> encode(data)]
    ELSE LET set == [st EXCEPT !.data = Put(st.data, key, Stored(key, data))]
         IN  indexAdd(set, order, key, Stored(key, data), data.Bad)

TxInsert(st, order, key, data) ==
    IF Has(st.data, key) THEN [st |-> st, err |-> "ErrKeyExists"]
    ELSE IF encode(data) # "nil" THEN [st |-> st, err |-> encode(data)]
    ELSE LET set == [st EXCEPT !.data = Put(st.data, key, Stored(key, data))]
         IN  indexAdd(set, order, key, Stored(key, data), data.Bad)

\* NextSequence(): the value sequence{}, which is no key of any type and asks
\* TxInsert for the next sequence value
NextSequence == -1

\* s.getSequence(storer.Type()): the next value of the type's sequence, which
\* starts at 0; it is taken outside the transaction
getSequence(sq) == [key |-> sq, seq |-> sq + 1]

\* The end of TxInsert: data's key field is set to the insert key when data
\* was passed by reference (ref), the key has the field's type (sameType) and
\* the field holds the zero value.
setKeyField(key, data, ref, sameType) ==
    IF ~ref THEN data
    ELSE IF ~hasKeyField(data) THEN data
    ELSE IF ~sameType THEN data
    ELSE IF data.Key # 0 THEN data
    ELSE [data EXCEPT !.Key = key]

\* TxInsert with its key argument resolved and the caller's data as the call
\* leaves it: [st, err, key, seq, data]
TxInsertKey(st, order, key, data, ref, sameType, sq) ==
    LET next == IF key = NextSequence THEN getSequence(sq)
                ELSE [key |-> key, seq |-> sq]
        r == TxInsert(st, order, next.key, data)
    IN  [st |-> r.st, err |-> r.err, key |-> next.key, seq |-> next.seq,
         data |-> IF r.err = "nil"
                  THEN setKeyField(next.key, data, ref, sameType)
                  ELSE data]

\* TxUpdate that leaves the index entries of the existing value in place
TxUpdateKeepIndex(st, order, key, data) ==
    IF ~Has(st.data, key) THEN [st |-> st, err |-> "ErrNotFound"]
    ELSE IF encode(data) # "nil" THEN [st |-> st, err |-> encode(data)]
    ELSE LET set == [st EXCEPT !.data = Put(st.data, key, Stored(key, data))]
         IN  indexAdd(set, order, key, Stored(key, data), data.Bad)

TxUpdate(st, order, key, data) ==
    IF ~Has(st.data, key) THEN [st |-> st, err |-> "ErrNotFound"]
    ELSE LET del == indexDelete(st, order, key, st.data[key], data.Bad)
         IN  IF del.err # "nil" THEN del
             ELSE IF encode(data) # "nil" THEN [st |-> del.st, err |-> encode(data)]
             ELSE LET set == [del.st EXCEPT !.data = Put(del.st.data, key, Stored(key, data))]
                  IN  indexAdd(set, order, key, Stored(key, data), data.Bad)

\* TxUpsert that refuses a key that exists
TxUpsertAbsent(st, order, key, data) ==
    IF Has(st.data, key) THEN [st |-> st, err |-> "ErrKeyExists"]
    ELSE IF encode(data) # "nil" THEN [st |-> st, err |-> encode(data)]
    ELSE LET set == [st EXCEPT !.data = Put(st.data, key, Stored(key, data))]
         IN  indexAdd(set, order, key, Stored(key, data), data.Bad)

\* TxUpsert that leaves the index entries of the existing value in place
TxUpsertKeepIndex(st, order, key, data) ==
    IF encode(data) # "nil" THEN [st |-> st, err |-> encode(data)]
    ELSE LET set == [st EXCEPT !.data = Put(st.data, key, Stored(key, data))]
         IN  indexAdd(set, order, key, Stored(key, data), data.Bad)

TxUpsert(st, order, key, data) ==
    LET del == IF Has(st.data, key)
               THEN indexDelete(st, order, key, st.data[key], data.Bad)
               ELSE [st |-> st, err |-> "nil"]
    IN  IF del.err # "nil" THEN del
        ELSE IF encode(data) # "nil" THEN [st |-> del.st, err |-> encode(data)]
        ELSE LET set == [del.st EXCEPT !.data = Put(del.st.data, key, Stored(key, data))]
             IN  indexAdd(set, order, key, Stored(key, data), data.Bad)

\* --------------------------------------------------------------- delete.go
\* TxDelete that removes the record only
TxDeleteKeepIndex(st, order, key) ==
    IF ~Has(st.data, key) THEN [st |-> st, err |-> "ErrNotFound"]
    ELSE [st |-> [st EXCEPT !.data = Del(st.data, key)], err |-> "nil"]

TxDelete(st, order, key) ==
    IF ~Has(st.data, key) THEN [st |-> st, err |-> "ErrNotFound"]
    ELSE LET gone == [st EXCEPT !.data = Del(st.data, key)]
         IN  indexDelete(gone, order, key, st.data[key], "ok")

\* ------------------------------------------------------------------ get.go
\* [value, err] of TxGet for a type whose declared key field, if any, is
\* keyField.  TxGet that leaves the key field as it was decoded:
TxGetDecoded(st, key, keyField) ==
    IF ~Has(st.data, key) THEN [value |-> "none", err |-> "ErrNotFound"]
    ELSE [value |-> st.data[key], err |-> "nil"]

TxGet(st, key, keyField) ==
    IF ~Has(st.data, key) THEN [value |-> "none", err |-> "ErrNotFound"]
    ELSE [value |-> IF keyField = "Key"
                    THEN [st.data[key] EXCEPT !.Key = key]
                    ELSE st.data[key],
          err |-> "nil"]

\* s.Badger().Update(fn): the transaction's writes are committed when fn
\* returns nil and discarded when it returns an error.
BadgerUpdate(st, r) == IF r.err = "nil" THEN r.st ELSE st

\* ---------------------------------------------------------------- query.go
\* the struct fields of the record type; the field "" stands for the key
Fields == {"Key", "Name", "Category"}
Key == ""

Crit(op, v) == [operator |-> op, value |-> v, values |-> <<>>]
CritIn(vs) == [operator |-> "in", value |-> 0, values |-> vs]

\* Where(field).<operator>(value): a new query with one criterion
Where(field, c) ==
    [index |-> "", fieldCriteria |-> Put(EmptyMap, field, <<c>>), ors |-> <<>>,
     badIndex |-> FALSE, limit |-> 0, skip |-> 0, sort |-> <<>>, reverse |-> FALSE]

\* the query Find uses for a nil query: &Query{}
NilQuery ==
    [index |-> "", fieldCriteria |-> EmptyMap, ors |-> <<>>,
     badIndex |-> FALSE, limit |-> 0, skip |-> 0, sort |-> <<>>, reverse |-> FALSE]

\* q.And(field).<operator>(value)
And(q, field, c) ==
    LET old == IF Has(q.fieldCriteria, field) THEN q.fieldCriteria[field] ELSE <<>>
    IN  [q EXCEPT !.fieldCriteria = Put(q.fieldCriteria, field, Append(old, c))]

Skip(q, amount) == [q EXCEPT !.skip = amount]
Limit(q, amount) == [q EXCEPT !.limit = amount]
SortBy(q, fields) == [q EXCEPT !.sort = fields]
Reverse(q) == [q EXCEPT !.reverse = ~q.reverse]
Index(q, indexName) == [q EXCEPT !.index = indexName]
Or(q, query) == [q EXCEPT !.ors = Append(q.ors, query)]

IsEmpty(q) == q.index = "" /\ DOMAIN q.fieldCriteria = {} /\ q.ors = <<>>

hasMatchFunc(criteria) == \E i \in 1..Len(criteria) : criteria[i].operator = "fn"

validateIndex(q) ==
    IF q.index = "" THEN "nil"
    ELSE IF q.index \in Fields THEN "nil"
    ELSE "IndexNotExist"

\* compare on two values of one numeric kind
compare(a, b) == IF a < b THEN -1 ELSE IF a = b THEN 0 ELSE 1

\* (a MatchFunc, operator fn, is one that accepts the record it is handed)
test(c, recordValue) ==
    IF c.operator = "in"
    THEN \E i \in 1..Len(c.values) : compare(recordValue, c.values[i]) = 0
    ELSE LET result == compare(recordValue, c.value)
         IN  CASE c.operator = "eq" -> result = 0
               [] c.operator = "ne" -> result # 0
               [] c.operator = "gt" -> result > 0
               [] c.operator = "lt" -> result < 0
               [] c.operator = "le" -> result < 0 \/ result = 0
               [] c.operator = "ge" -> result > 0 \/ result = 0
               [] c.operator = "fn" -> TRUE

matchesAllCriteria(criteria, value) ==
    \A i \in 1..Len(criteria) : test(criteria[i], value)

matchesAllFields(q, key, value) ==
    IF IsEmpty(q) THEN TRUE
    ELSE \A field \in DOMAIN q.fieldCriteria :
           \/ field = q.index /\ ~q.badIndex /\ ~hasMatchFunc(q.fieldCriteria[field])
           \/ IF field = Key
              THEN matchesAllCriteria(q.fieldCriteria[field], key)
              ELSE matchesAllCriteria(q.fieldCriteria[field], value[field])

\* Query.matches: the fields of the query, or else those of an OR-branch
RECURSIVE matches(_, _, _)
matches(q, key, value) ==
    \/ matchesAllFields(q, key, value)
    \/ \E i \in 1..Len(q.ors) : matches(q.ors[i], key, value)

\* Query.Matches for data of a type without a key field: the key stays nil
\* (none of the model's queries passed to Matches has a criterion on the key)
Matches(q, data) == matches(q, 0, data)

\* The untyped nil passed as a comparison value: a value of no kind that a
\* field of the record has.
Nil == -2

\* c.compare(recordValue, value, currentRow) on values that may differ in
\* kind: [result, err]
compareAcross(a, b) ==
    IF (a = Nil) # (b = Nil) THEN [result |-> 0, err |-> "ErrTypeMismatch"]
    ELSE [result |-> compare(a, b), err |-> "nil"]

\* the loop of the in operator in Criterion.test
RECURSIVE testIn(_, _)
testIn(values, recordValue) ==
    IF values = <<>> THEN [ok |-> FALSE, err |-> "nil"]
    ELSE LET r == compareAcross(recordValue, Head(values))
         IN  IF r.err # "nil" THEN [ok |-> FALSE, err |-> r.err]
             ELSE IF r.result = 0 THEN [ok |-> TRUE, err |-> "nil"]
             ELSE testIn(Tail(values), recordValue)

\* Criterion.test with the error it returns: [ok, err]; test above is its
\* first component on values of one kind
testAcross(c, recordValue) ==
    IF c.operator = "in" THEN testIn(c.values, recordValue)
    ELSE LET r == compareAcross(recordValue, c.value)
         IN  IF r.err # "nil" THEN [ok |-> FALSE, err |-> r.err]
             ELSE [ok |-> test(c, recordValue), err |-> "nil"]

\* ---------------------------------------------------------------- iterator
RECURSIVE Ascending(_)
Ascending(S) ==
    IF S = {} THEN <<>>
    ELSE LET m == CHOOSE x \in S : \A y \in S : x <= y
         IN  <<m>> \o Ascending(S \ {m})

RECURSIVE Flatten(_)
Flatten(lists) == IF lists = <<>> THEN <<>> ELSE Head(lists) \o Flatten(Tail(lists))

indexExists(indexName) == indexName \in IndexNames

\* The candidate keys the iterator yields, in order: the primary keys in key
\* order, or the key lists of the index entries in the order of their values;
\* the criteria on the field the iterator walks are applied by the iterator.
newIterator(st, q) ==
    LET criteria == IF Has(q.fieldCriteria, q.index) /\ ~hasMatchFunc(q.fieldCriteria[q.index])
                    THEN q.fieldCriteria[q.index] ELSE <<>>
    IN  IF q.index = ""
        THEN SelectSeq(Ascending(DOMAIN st.data), LAMBDA k : matchesAllCriteria(criteria, k))
        ELSE IF ~indexExists(q.index) THEN <<>>
        ELSE LET entries == st.index[q.index]
                 values == SelectSeq(Ascending(DOMAIN entries),
                                     LAMBDA v : matchesAllCriteria(criteria, v))
             IN  Flatten([i \in 1..Len(values) |-> entries[values[i]]])

RECURSIVE KeyListAddAll(_, _)
KeyListAddAll(list, keys) ==
    IF keys = <<>> THEN list
    ELSE KeyListAddAll(KeyListAdd(list, Head(keys)), Tail(keys))

\* -------------------------------------------------------------------- sort
RECURSIVE sortFunction(_, _, _, _)
sortFunction(fields, reverse, first, second) ==
    IF fields = <<>> THEN FALSE
    ELSE LET value == IF reverse THEN second[Head(fields)] ELSE first[Head(fields)]
             other == IF reverse THEN first[Head(fields)] ELSE second[Head(fields)]
             cmp == compare(value, other)
         IN  IF cmp = -1 THEN TRUE
             ELSE IF cmp = 0 THEN sortFunction(Tail(fields), reverse, first, second)
             ELSE FALSE

Rank(tie, k) == CHOOSE i \in 1..Len(tie) : tie[i] = k

\* sort.Slice is not stable: records the less function does not order end
\* up in any order; tie, an order of the keys, stands for that choice.
RECURSIVE SortInsert(_, _, _, _, _)
SortInsert(sorted, k, st, q, tie) ==
    IF sorted = <<>> THEN <<k>>
    ELSE LET h == Head(sorted)
             kFirst == \/ sortFunction(q.sort, q.reverse, st.data[k], st.data[h])
                       \/ /\ ~sortFunction(q.sort, q.reverse, st.data[h], st.data[k])
                          /\ Rank(tie, k) < Rank(tie, h)
         IN  IF kFirst THEN <<k>> \o sorted
             ELSE <<h>> \o SortInsert(Tail(sorted), k, st, q, tie)

RECURSIVE sortSlice(_, _, _, _)
sortSlice(records, st, q, tie) ==
    IF records = <<>> THEN <<>>
    ELSE SortInsert(sortSlice(Tail(records), st, q, tie), Head(records), st, q, tie)

validateSortFields(q) ==
    IF \A i \in 1..Len(q.sort) : q.sort[i] \in Fields THEN "nil" ELSE "FieldNotExist"

getSkipAndLimitRange(q, recordsLen) ==
    IF q.skip > recordsLen THEN [startIndex |-> 0, endIndex |-> 0]
    ELSE LET limitIndex == q.limit + q.skip
         IN  [startIndex |-> q.skip,
              endIndex |-> IF q.limit > 0 /\ limitIndex <= recordsLen
                           THEN limitIndex ELSE recordsLen]

Slice(s, range) == SubSeq(s, range.startIndex + 1, range.endIndex)

\* ---------------------------------------------------------------- runQuery
\* A query execution returns [out, err]: the keys of the records passed to
\* the sink (action), in the order they were passed, and the error returned.

\* the loop over iter.Next() in runQuery
RECURSIVE iterate(_, _, _, _, _, _, _)
iterate(st, q, cand, retrievedKeys, skip, limit, out) ==
    IF cand = <<>> THEN [out |-> out, skip |-> skip, limit |-> limit, err |-> "nil"]
    ELSE
      LET k == Head(cand)
      IN  IF Len(retrievedKeys) # 0 /\ KeyListIn(retrievedKeys, k)
          THEN iterate(st, q, Tail(cand), retrievedKeys, skip, limit, out)
          ELSE IF ~Has(st.data, k)
          THEN [out |-> out, skip |-> skip, limit |-> limit, err |-> "ErrKeyNotFound"]
          ELSE IF ~matchesAllFields(q, k, st.data[k])
          THEN iterate(st, q, Tail(cand), retrievedKeys, skip, limit, out)
          ELSE IF skip > 0
          THEN iterate(st, q, Tail(cand), retrievedKeys, skip - 1, limit, out)
          ELSE IF q.limit # 0 /\ limit - 1 = 0
          THEN [out |-> Append(out, k), skip |-> skip, limit |-> 0, err |-> "nil"]
          ELSE iterate(st, q, Tail(cand), retrievedKeys, skip,
                       IF q.limit # 0 THEN limit - 1 ELSE limit, Append(out, k))

RECURSIVE runQuery(_, _, _, _, _)
RECURSIVE runQuerySort(_, _, _)
RECURSIVE runOrs(_, _, _, _, _, _)

\* runQuery that does not record the keys it has passed to the sink
runQueryNoTrack(st, query, retrievedKeys, skip, tie) ==
    IF validateIndex(query) # "nil" THEN [out |-> <<>>, err |-> validateIndex(query)]
    ELSE IF Len(query.sort) > 0 THEN runQuerySort(st, query, tie)
    ELSE
      LET q == [query EXCEPT !.badIndex = (query.index # "" /\ ~indexExists(query.index))]
      IN  IF q.index # "" /\ q.badIndex THEN [out |-> <<>>, err |-> "IndexNotExist"]
          ELSE
            LET loop == iterate(st, q, newIterator(st, q), retrievedKeys, skip,
                                q.limit - Len(retrievedKeys), <<>>)
            IN  IF loop.err # "nil" THEN [out |-> loop.out, err |-> loop.err]
                ELSE IF q.limit # 0 /\ loop.limit = 0 THEN [out |-> loop.out, err |-> "nil"]
                ELSE IF Len(q.ors) > 0
                THEN runOrs(st, q.ors, retrievedKeys, loop.skip, tie, loop.out)
                ELSE [out |-> loop.out, err |-> "nil"]

runQuery(st, query, retrievedKeys, skip, tie) ==
    IF validateIndex(query) # "nil" THEN [out |-> <<>>, err |-> validateIndex(query)]
    ELSE IF Len(query.sort) > 0 THEN runQuerySort(st, query, tie)
    ELSE
      LET q == [query EXCEPT !.badIndex = (query.index # "" /\ ~indexExists(query.index))]
      IN  IF q.index # "" /\ q.badIndex THEN [out |-> <<>>, err |-> "IndexNotExist"]
          ELSE
            LET loop == iterate(st, q, newIterator(st, q), retrievedKeys, skip,
                                q.limit - Len(retrievedKeys), <<>>)
            IN  IF loop.err # "nil" THEN [out |-> loop.out, err |-> loop.err]
                ELSE IF q.limit # 0 /\ loop.limit = 0 THEN [out |-> loop.out, err |-> "nil"]
                ELSE IF Len(q.ors) > 0
                THEN runOrs(st, q.ors, KeyListAddAll(retrievedKeys, loop.out),
                            loop.skip, tie, loop.out)
                ELSE [out |-> loop.out, err |-> "nil"]

\* for i := range query.ors { runQuery(tx, tp, query.ors[i], retrievedKeys, skip, action) }
runOrs(st, ors, retrievedKeys, skip, tie, out) ==
    IF ors = <<>> THEN [out |-> out, err |-> "nil"]
    ELSE LET r == runQuery(st, Head(ors), retrievedKeys, skip, tie)
         IN  IF r.err # "nil" THEN [out |-> out \o r.out, err |-> r.err]
             ELSE runOrs(st, Tail(ors), retrievedKeys, skip, tie, out \o r.out)

runQuerySort(st, query, tie) ==
    IF validateSortFields(query) # "nil"
    THEN [out |-> <<>>, err |-> validateSortFields(query)]
    ELSE
      LET qCopy == [query EXCEPT !.sort = <<>>, !.limit = 0, !.skip = 0]
          r == runQuery(st, qCopy, <<>>, 0, tie)
      IN  IF r.err # "nil" THEN [out |-> <<>>, err |-> r.err]
          ELSE LET records == sortSlice(r.out, st, query, tie)
               IN  [out |-> Slice(records, getSkipAndLimitRange(query, Len(records))),
                    err |-> "nil"]

isFindByIndexQuery(query) ==
    IF \/ query.index = ""
       \/ DOMAIN query.fieldCriteria = {}
       \/ ~Has(query.fieldCriteria, query.index)
       \/ Len(query.ors) > 0
    THEN FALSE
    ELSE /\ Len(query.fieldCriteria[query.index]) = 1
         /\ query.fieldCriteria[query.index][1].operator \in {"eq", "in"}

fetchIndexValues(st, query, indexKeys) ==
    Flatten([i \in 1..Len(indexKeys) |->
               IF indexExists(query.index) /\ Has(st.index[query.index], indexKeys[i])
               THEN st.index[query.index][indexKeys[i]]
               ELSE <<>>])

\* the loop over keyList in findByIndexQuery
RECURSIVE fetchRecords(_, _, _, _)
fetchRecords(st, query, keyList, slice) ==
    IF keyList = <<>> THEN [out |-> slice, err |-> "nil"]
    ELSE IF ~Has(st.data, Head(keyList)) THEN [out |-> slice, err |-> "panic"]
    ELSE IF ~matchesAllFields(query, Head(keyList), st.data[Head(keyList)])
    THEN fetchRecords(st, query, Tail(keyList), slice)
    ELSE fetchRecords(st, query, Tail(keyList), Append(slice, Head(keyList)))

findByIndexQuery(st, query, tie) ==
    LET criteria == query.fieldCriteria[query.index][1]
    IN  IF validateIndex(query) # "nil" THEN [out |-> <<>>, err |-> validateIndex(query)]
        ELSE IF validateSortFields(query) # "nil"
        THEN [out |-> <<>>, err |-> validateSortFields(query)]
        ELSE
          LET keyList == IF criteria.operator = "in"
                         THEN fetchIndexValues(st, query, criteria.values)
                         ELSE fetchIndexValues(st, query, <<criteria.value>>)
              got == fetchRecords(st, query, keyList, <<>>)
          IN  IF got.err # "nil" THEN [out |-> <<>>, err |-> got.err]
              ELSE LET slice == IF Len(query.sort) > 0
                                THEN sortSlice(got.out, st, query, tie) ELSE got.out
                   IN  [out |-> Slice(slice, getSkipAndLimitRange(query, Len(slice))),
                        err |-> "nil"]

\* Find: [out, err], out the keys of the records put in the result slice
findQuery(st, query, tie) ==
    IF isFindByIndexQuery(query) THEN findByIndexQuery(st, query, tie)
    ELSE LET r == runQuery(st, query, <<>>, query.skip, tie)
         IN  IF r.err # "nil" THEN [out |-> <<>>, err |-> r.err] ELSE r

\* Find(&result, query): the slice result points to when findQuery has
\* returned. The iterating path appends to the slice it was handed and stores
\* it back; the direct index lookup stores a slice it made itself; an error
\* leaves the caller's slice as it was.
findResult(st, result, query, tie) ==
    LET r == findQuery(st, query, tie)
    IN  IF r.err # "nil" THEN [result |-> result, out |-> r.out, err |-> r.err]
        ELSE IF isFindByIndexQuery(query)
        THEN [result |-> r.out, out |-> r.out, err |-> "nil"]
        ELSE [result |-> result \o r.out, out |-> r.out, err |-> "nil"]

\* The transaction a SubQuery runs in when a MatchFunc of query's own
\* criteria starts it in an execution under transaction tx.  The MatchFunc
\* gets RecordAccess.query = c.query, the *Query the criterion was built on,
\* and SubQuery passes on the tx field of that value; held is what the field
\* holds before the execution (NilTx in a query that has not been run).
NilTx == 0

\* runQuerySort runs runQuery on qCopy := *query, which sets qCopy.tx: the
\* field of query, which the criteria point to, is left as it was
runQuerySortTx(query, tx, held) == held

\* runQuery sets query.tx = tx before it matches a record
runQueryTx(query, tx, held) ==
    IF Len(query.sort) > 0 THEN runQuerySortTx(query, tx, held) ELSE tx

\* findByIndexQuery matches the records without setting query.tx
findByIndexQueryTx(query, tx, held) == held

findQueryTx(query, tx, held) ==
    IF isFindByIndexQuery(query) THEN findByIndexQueryTx(query, tx, held)
    ELSE runQueryTx(query, tx, held)

\* Find runs findQuery; FindOne, Count, ForEach, UpdateMatching,
\* DeleteMatching and Aggregate run runQuery
executionTx(exec, query, tx, held) ==
    IF exec = "Find" THEN findQueryTx(query, tx, held) ELSE runQueryTx(query, tx, held)

\* FindOne: [result, err]; the sink stores each record it is handed in
\* result, so result is the last record runQuery handed over (0: none)
findOneQuery(st, query, tie) ==
    LET r == runQuery(st, Limit(query, 1), <<>>, query.skip, tie)
    IN  IF r.err # "nil" THEN [result |-> 0, err |-> r.err]
        ELSE IF r.out = <<>> THEN [result |-> 0, err |-> "ErrNotFound"]
        ELSE [result |-> r.out[Len(r.out)], err |-> "nil"]

\* Count: [count, err]; the sink counts the records it is handed
countQuery(st, query, tie) ==
    LET r == runQuery(st, query, <<>>, query.skip, tie)
    IN  IF r.err # "nil" THEN [count |-> 0, err |-> r.err]
        ELSE [count |-> Len(r.out), err |-> "nil"]

\* a sink that hands the decoded record over as it is
decodeKeyNone(key, record, keyField) == record

\* decodeKey(r.key, &record.<key field>): the key field of a decoded record
\* is set to the key the record was read under
decodeKey(key, record, keyField) ==
    IF keyField = "" THEN record ELSE [record EXCEPT ![keyField] = key]

\* the records the sinks of findQuery and findOneQuery and the loop of
\* findByIndexQuery put in the result for the keys out: each is the decoded
\* value with its key field set from the key (none of the model's queries on
\* a type with a key field has a criterion on that field, so it makes no
\* difference that findByIndexQuery sets the field before it matches)
findRecords(st, keyField, out) ==
    [i \in 1..Len(out) |-> decodeKey(out[i], st.data[out[i]], keyField)]

\* The callback ForEach hands each record to: it returns an error for the
\* records named fail (0: it never returns an error).
each(fail, record) == IF record.Name = fail THEN "EachError" ELSE "nil"

\* The sink of forEach applied to the records runQuery hands over, in order:
\* every level of runQuery returns the first error of its sink at once, so
\* the sink is called up to and including the first record fn fails on.
\* Result [calls, err]: the arguments fn was called with, and its error.
RECURSIVE eachSink(_, _, _, _)
eachSink(st, keyField, fail, out) ==
    IF out = <<>> THEN [calls |-> <<>>, err |-> "nil"]
    ELSE
      LET r == [key |-> Head(out), value |-> decodeKey(Head(out), st.data[Head(out)], keyField)]
          rest == eachSink(st, keyField, fail, Tail(out))
      IN  IF each(fail, r.value) # "nil" THEN [calls |-> <<r>>, err |-> each(fail, r.value)]
          ELSE [calls |-> <<r>> \o rest.calls, err |-> rest.err]

\* ForEach: [calls, err]
forEach(st, query, keyField, fail, tie) ==
    LET r == runQuery(st, query, <<>>, query.skip, tie)
        sink == eachSink(st, keyField, fail, r.out)
    IN  [calls |-> sink.calls, err |-> IF sink.err # "nil" THEN sink.err ELSE r.err]

\* The callback UpdateMatching hands each record to: it returns an error for
\* the record named fn.fail and otherwise sets field fn.field to fn.value.
update(fn, record) ==
    IF record.Name = fn.fail THEN [value |-> record, err |-> "UpdateError"]
    ELSE [value |-> [record EXCEPT ![fn.field] = fn.value], err |-> "nil"]

\* the loop over records in updateQuery; scan is the store the records were
\* decoded from. Result [st, err, at]: at is the key of the record in hand.
RECURSIVE updateRecords(_, _, _, _, _)
updateRecords(st, scan, order, records, fn) ==
    IF records = <<>> THEN [st |-> st, err |-> "nil", at |-> 0]
    ELSE
      LET key == Head(records)
          del == indexDelete(st, order, key, scan.data[key], "ok")
          up == update(fn, scan.data[key])
          set == [del.st EXCEPT !.data = Put(del.st.data, key, up.value)]
          add == indexAdd(set, order, key, up.value, "ok")
      IN  IF del.err # "nil" THEN [st |-> del.st, err |-> del.err, at |-> key]
          ELSE IF up.err # "nil" THEN [st |-> del.st, err |-> up.err, at |-> key]
          ELSE IF add.err # "nil" THEN [st |-> add.st, err |-> add.err, at |-> key]
          ELSE updateRecords(add.st, scan, order, Tail(records), fn)

updateQuery(st, order, query, fn, tie) ==
    LET r == runQuery(st, query, <<>>, query.skip, tie)
    IN  IF r.err # "nil" THEN [st |-> st, err |-> r.err, at |-> 0]
        ELSE updateRecords(st, st, order, r.out, fn)

\* the loop over records in deleteQuery
RECURSIVE deleteRecords(_, _, _, _)
deleteRecords(st, scan, order, records) ==
    IF records = <<>> THEN [st |-> st, err |-> "nil"]
    ELSE
      LET key == Head(records)
          gone == [st EXCEPT !.data = Del(st.data, key)]
          del == indexDelete(gone, order, key, scan.data[key], "ok")
      IN  IF del.err # "nil" THEN del
          ELSE deleteRecords(del.st, scan, order, Tail(records))

deleteQuery(st, order, query, tie) ==
    LET r == runQuery(st, query, <<>>, query.skip, tie)
    IN  IF r.err # "nil" THEN [st |-> st, err |-> r.err]
        ELSE deleteRecords(st, st, order, r.out)

\* ------------------------------------------------------ the callers' inputs
\* The queries, update functions and sort tie-breaks the callers pass in.
Operators == {"eq", "ne", "gt", "lt"}
ValuesOf(field) ==
    IF field = "Category" THEN Vals ELSE IF field = "Name" THEN Names ELSE Keys
InLists(V) == UNION {[1..n -> V] : n \in 1..MaxIn}
Criteria(field) ==
    {Crit(op, v) : op \in Operators, v \in ValuesOf(field)}
      \cup {CritIn(vs) : vs \in InLists(ValuesOf(field))}

CategoryEq == {Where("Category", Crit("eq", v)) : v \in Vals}
NameEq == {Where("Name", Crit("eq", n)) : n \in Names}
KeyGt == {Where(Key, Crit("gt", k)) : k \in Keys}

\* Where(field).<operator>(...)
SimpleQueries ==
    UNION {{Where(f, c) : c \in Criteria(f)} : f \in {Key, "Name", "Category"}}
\* Where(field).<operator>(...).Index(field)
HintedQueries ==
    UNION {{Index(Where(f, c), f) : c \in Criteria(f)} : f \in IndexNames}
\* Where("Category").Eq/In(...).And("Name").Eq(n), with and without Index("Category")
AndQueries ==
    LET lead == {Crit("eq", v) : v \in Vals} \cup {CritIn(vs) : vs \in InLists(Vals)}
    IN  UNION {{And(Where("Category", c), "Name", Crit("eq", n)),
                Index(And(Where("Category", c), "Name", Crit("eq", n)), "Category")} :
               c \in lead, n \in Names}
\* an Index() hint that names a struct field without an index, or no field
BadIndexQueries ==
    {Index(Where("Key", Crit(op, k)), "Key") : op \in {"eq", "gt"}, k \in Keys}
      \cup {Index(q, "BadIndex") : q \in NameEq}
\* the queries passed to Or, one of them with an index to iterate
Branches == CategoryEq \cup NameEq \cup {Index(q, "Category") : q \in CategoryEq}
OrQueries == {Or(q, b) : q \in Branches \cup KeyGt, b \in Branches}
Or2Queries == {Or(Or(q, a), b) : q \in CategoryEq, a \in Branches, b \in Branches}

Unpaged ==
    {NilQuery} \cup SimpleQueries \cup HintedQueries \cup AndQueries
      \cup BadIndexQueries \cup OrQueries \cup Or2Queries

Pages == [skip : 0..MaxSkip, limit : 0..MaxLimit]
Page(q, p) == Limit(Skip(q, p.skip), p.limit)
PageBases ==
    {NilQuery} \cup CategoryEq \cup {Index(q, "Category") : q \in CategoryEq}
      \cup {Or(q, b) : q \in Branches, b \in CategoryEq}
PagedQueries == {Page(q, p) : q \in PageBases, p \in Pages \ {[skip |-> 0, limit |-> 0]}}

Sorts == {<<"Category">>, <<"Name">>, <<"Category", "Name">>}
SortPages == [skip : {0, MaxSkip}, limit : {0, 1}]
SortBases ==
    {NilQuery} \cup {Index(q, "Category") : q \in CategoryEq}
      \cup {Index(Where("Category", CritIn(<<v, v>>)), "Category") : v \in Vals}
      \cup {Or(q, b) : q \in CategoryEq, b \in CategoryEq}
      \cup {Or(Or(q, a), b) : q \in CategoryEq, a \in CategoryEq, b \in CategoryEq}
SortedQueries ==
    UNION {{Page(SortBy(q, fields), p), Reverse(Page(SortBy(q, fields), p))} :
           q \in SortBases, fields \in Sorts, p \in SortPages}

Queries == Unpaged \cup PagedQueries \cup SortedQueries

\* the orders in which an unstable sort may leave records that compare equal
Ties == {tie \in [1..MaxKey -> Keys] : \A i, j \in 1..MaxKey : tie[i] = tie[j] => i = j}
TiesOf(query) == IF query.sort = <<>> THEN {Ascending(Keys)} ELSE Ties

\* the queries and callbacks passed to UpdateMatching / DeleteMatching;
\* fail = 0 is a callback that never returns an error
MatchQueries ==
    {NilQuery} \cup CategoryEq \cup NameEq
      \cup {Where(Key, Crit("gt", 1)), Limit(NilQuery, 1),
            Or(Where("Name", Crit("eq", 1)), Where("Category", Crit("eq", 1)))}
\* the queries passed to FindOne and to Count, none of them sorted
OneQueries == {NilQuery} \cup SimpleQueries \cup OrQueries
CountQueries == SimpleQueries \cup HintedQueries \cup OrQueries

\* Where("Category").In(...).Index("Category"), as it is and with Skip(1) or Limit(1)
IndexMatchQueries ==
    UNION {{Index(Where("Category", CritIn(vs)), "Category"),
            Skip(Index(Where("Category", CritIn(vs)), "Category"), 1),
            Limit(Index(Where("Category", CritIn(vs)), "Category"), 1)} :
           vs \in InLists(Vals)}
UpdateFns ==
    [field : {"Category"}, value : Vals, fail : {0, 1}]
      \cup [field : {"Name"}, value : Names, fail : {0, 1}]

\* ------------------------------------------------------------------- state
VARIABLES
    store,   \* the committed contents of the key-value store
    pre,     \* the committed contents when the last top-level call began
    last,    \* the top-level call that has just returned, and its result
    sequences, \* the next value of the type's key sequence
    procs,   \* the top-level call each goroutine is in
    txn      \* the transaction the caller has begun itself

vars == <<store, pre, last, sequences, procs, txn>>

NoCall == [op |-> "none", err |-> "nil"]

Procs == 1..MaxProcs
NoProc == [pc |-> "idle"]
NoTxn == [state |-> "none"]

Init ==
    /\ store = EmptyStore
    /\ pre = EmptyStore
    /\ last = NoCall
    /\ sequences = 0
    /\ procs = [p \in Procs |-> NoProc]
    /\ txn = NoTxn

\* A caller issues one call at a time and takes its result before the next.
Idle == last.op = "none"

Insert(key, data) ==
    \E order \in IndexOrders :
      LET r == TxInsert(store, order, key, data)
      IN  /\ store' = BadgerUpdate(store, r)
          /\ pre' = store
          /\ last' = [op |-> "Insert", key |-> key, data |-> data, err |-> r.err]

\* Update whose writes reach the store although TxUpdate returned an error
UpdateNoRollback(key, data) ==
    \E order \in IndexOrders :
      LET r == TxUpdate(store, order, key, data)
      IN  /\ store' = r.st
          /\ pre' = store
          /\ last' = [op |-> "Update", key |-> key, data |-> data, err |-> r.err]

Update(key, data) ==
    \E order \in IndexOrders :
      LET r == TxUpdate(store, order, key, data)
      IN  /\ store' = BadgerUpdate(store, r)
          /\ pre' = store
          /\ last' = [op |-> "Update", key |-> key, data |-> data, err |-> r.err]

Upsert(key, data) ==
    \E order \in IndexOrders :
      LET r == TxUpsert(store, order, key, data)
      IN  /\ store' = BadgerUpdate(store, r)
          /\ pre' = store
          /\ last' = [op |-> "Upsert", key |-> key, data |-> data, err |-> r.err]

Delete(key) ==
    \E order \in IndexOrders :
      LET r == TxDelete(store, order, key)
      IN  /\ store' = BadgerUpdate(store, r)
          /\ pre' = store
          /\ last' = [op |-> "Delete", key |-> key, err |-> r.err]

\* Find runs in a read-only transaction; out is the result slice
Find(query) ==
    \E tie \in TiesOf(query) :
      LET r == findQuery(store, query, tie)
      IN  /\ last' = [op |-> "Find", query |-> query, out |-> r.out, err |-> r.err]
          /\ pre' = store
          /\ UNCHANGED store

\* view is the transaction's view when updateQuery returned, at the key of
\* the record it had in hand
UpdateMatching(query, fn) ==
    \E order \in IndexOrders :
      LET r == updateQuery(store, order, query, fn, Ascending(Keys))
      IN  /\ store' = BadgerUpdate(store, r)
          /\ pre' = store
          /\ last' = [op |-> "UpdateMatching", query |-> query, fn |-> fn,
                      err |-> r.err, at |-> r.at, view |-> r.st]

DeleteMatching(query) ==
    \E order \in IndexOrders :
      LET r == deleteQuery(store, order, query, Ascending(Keys))
      IN  /\ store' = BadgerUpdate(store, r)
          /\ pre' = store
          /\ last' = [op |-> "DeleteMatching", query |-> query, err |-> r.err]

\* a single caller: no goroutine is in a call, the sequence is not used and
\* the caller has no transaction of its own
Alone == UNCHANGED <<sequences, procs, txn>>

InsertCall == Idle /\ Alone /\ \E key \in Keys, data \in Data : Insert(key, data)
UpdateCall == Idle /\ Alone /\ \E key \in Keys, data \in Data : Update(key, data)
UpsertCall == Idle /\ Alone /\ \E key \in Keys, data \in Data : Upsert(key, data)
DeleteCall == Idle /\ Alone /\ \E key \in Keys : Delete(key)
FindCall == Idle /\ Alone /\ \E query \in Queries : Find(query)
UpdateMatchingCall ==
    /\ Idle
    /\ Alone
    /\ \E query \in MatchQueries, fn \in UpdateFns : UpdateMatching(query, fn)
DeleteMatchingCall ==
    Idle /\ Alone /\ \E query \in MatchQueries : DeleteMatching(query)

\* the caller has taken the result of the last call
Done ==
    /\ ~Idle
    /\ last' = NoCall
    /\ pre' = store
    /\ UNCHANGED <<store, sequences, procs, txn>>

Next ==
    \/ InsertCall
    \/ UpdateCall
    \/ UpsertCall
    \/ DeleteCall
    \/ FindCall
    \/ UpdateMatchingCall
    \/ DeleteMatchingCall
    \/ Done

Spec == Init /\ [][Next]_vars

\* callers that only write
WriteNext ==
    \/ InsertCall
    \/ UpdateCall
    \/ UpsertCall
    \/ DeleteCall
    \/ UpdateMatchingCall
    \/ DeleteMatchingCall
    \/ Done

WriteSpec == Init /\ [][WriteNext]_vars

\* FindOne and Count run in a read-only transaction
FindOne(query) ==
    LET r == findOneQuery(store, query, Ascending(Keys))
    IN  /\ last' = [op |-> "FindOne", query |-> query, result |-> r.result,
                    err |-> r.err]
        /\ pre' = store
        /\ UNCHANGED store

Count(query) ==
    LET r == countQuery(store, query, Ascending(Keys))
    IN  /\ last' = [op |-> "Count", query |-> query, count |-> r.count,
                    err |-> r.err]
        /\ pre' = store
        /\ UNCHANGED store

FindOneCall == Idle /\ Alone /\ \E query \in OneQueries : FindOne(query)
CountCall == Idle /\ Alone /\ \E query \in CountQueries : Count(query)

\* callers that insert and query with FindOne and Count
QueryNext ==
    \/ InsertCall
    \/ FindOneCall
    \/ CountCall
    \/ Done

QuerySpec == Init /\ [][QueryNext]_vars

\* callers that write and pass queries with an Index hint to UpdateMatching
\* and DeleteMatching
UpdateMatchingIndexCall ==
    /\ Idle
    /\ Alone
    /\ \E query \in IndexMatchQueries, fn \in UpdateFns : UpdateMatching(query, fn)
DeleteMatchingIndexCall ==
    Idle /\ Alone /\ \E query \in IndexMatchQueries : DeleteMatching(query)

MatchNext ==
    \/ InsertCall
    \/ UpdateMatchingCall
    \/ DeleteMatchingCall
    \/ UpdateMatchingIndexCall
    \/ DeleteMatchingIndexCall
    \/ Done

MatchSpec == Init /\ [][MatchNext]_vars

\* ------------------------------------------------- a type with a key field
\* Insert of data whose type declares Key as its key field; held is the
\* caller's data when the call has returned
InsertKey(key, data, ref, sameType) ==
    \E order \in IndexOrders :
      LET r == TxInsertKey(store, order, key, data, ref, sameType, sequences)
      IN  /\ store' = BadgerUpdate(store, r)
          /\ pre' = store
          /\ sequences' = r.seq
          /\ last' = [op |-> "Insert", key |-> r.key, data |-> data,
                      held |-> r.data, ref |-> ref, sameType |-> sameType,
                      err |-> r.err]
          /\ UNCHANGED <<procs, txn>>

Get(key, keyField) ==
    LET r == TxGet(store, key, keyField)
    IN  /\ last' = [op |-> "Get", key |-> key, value |-> r.value, err |-> r.err]
        /\ pre' = store
        /\ UNCHANGED store

InsertKeyCall ==
    /\ Idle
    /\ \E key \in Keys, data \in KeyedData, ref \in BOOLEAN, sameType \in BOOLEAN :
         InsertKey(key, data, ref, sameType)
UpsertKeyCall == Idle /\ Alone /\ \E key \in Keys, data \in KeyedData : Upsert(key, data)
GetCall == Idle /\ Alone /\ \E key \in Keys : Get(key, "Key")

KeyNext ==
    \/ InsertKeyCall
    \/ UpsertKeyCall
    \/ DeleteCall
    \/ GetCall
    \/ Done

KeySpec == Init /\ [][KeyNext]_vars

\* ------------------------------------------------------------- goroutines
\* Each goroutine makes one top-level call.  The call's transaction reads the
\* store as it was when the transaction began (snap); when the call's Tx
\* function has returned nil, the commit of its writes fails with ErrConflict
\* if a key the transaction read has been written since, and else writes what
\* the transaction wrote.  A cell is a key of the engine: <<"data", k>> for the
\* record under k and <<name, v>> for the entry of index name for value v.
AllKeys == 0..(MaxKey + MaxSeq)
AllCells ==
    ({"data"} \X AllKeys) \cup (IndexNames \X (Names \cup Vals))

Cell(st, c) ==
    IF c[1] = "data"
    THEN IF Has(st.data, c[2]) THEN <<st.data[c[2]]>> ELSE <<>>
    ELSE IF Has(st.index[c[1]], c[2]) THEN st.index[c[1]][c[2]] ELSE <<>>

\* the cells a call's transaction reads: a write by key reads the record
\* under the key and the index entries of the old and of the new values; a
\* call with a query iterates, and every key is taken as read
Reads(call, snap, key) ==
    IF call.op \in {"UpdateMatching", "DeleteMatching"} THEN AllCells
    ELSE {<<"data", key>>}
           \cup (IF call.op = "Delete" THEN {}
                 ELSE {<<name, call.data[name]>> : name \in IndexNames})
           \cup (IF Has(snap.data, key)
                 THEN {<<name, snap.data[key][name]>> : name \in IndexNames}
                 ELSE {})

\* a key the transaction read has been written since it began
Conflict(snap, cur, cells) == \E c \in cells : Cell(snap, c) # Cell(cur, c)

\* the transaction has writes to commit: a write by key that returned nil has
\* set or deleted the record, a call with a query writes when it matched a
\* record; a transaction without writes commits without a check
Wrote(call, snap) ==
    IF call.op \in {"UpdateMatching", "DeleteMatching"}
    THEN runQuery(snap, call.query, <<>>, call.query.skip, Ascending(Keys)).out # <<>>
    ELSE TRUE

\* the store after the commit of a transaction that read cells and wrote
\* into them what new holds
Overlay(cur, new, cells) ==
    LET from(c) == IF c \in cells THEN new ELSE cur
        keys == {k \in DOMAIN cur.data \cup DOMAIN new.data :
                   Has(from(<<"data", k>>).data, k)}
        values(name) ==
            {v \in DOMAIN cur.index[name] \cup DOMAIN new.index[name] :
               Has(from(<<name, v>>).index[name], v)}
    IN  [data |-> [k \in keys |-> from(<<"data", k>>).data[k]],
         index |-> [name \in IndexNames |->
                      [v \in values(name) |-> from(<<name, v>>).index[name][v]]]]

\* The Tx function of a top-level call on the transaction's view:
\* [st, err, key, seq, data]
TxCall(call, snap, order, data, sq) ==
    LET r == IF call.op = "Update" THEN TxUpdate(snap, order, call.key, data)
             ELSE IF call.op = "Upsert" THEN TxUpsert(snap, order, call.key, data)
             ELSE IF call.op = "Delete" THEN TxDelete(snap, order, call.key)
             ELSE IF call.op = "UpdateMatching"
             THEN updateQuery(snap, order, call.query, call.fn, Ascending(Keys))
             ELSE deleteQuery(snap, order, call.query, Ascending(Keys))
    IN  IF call.op = "Insert"
        THEN TxInsertKey(snap, order, call.key, data, call.ref, call.sameType, sq)
        ELSE [st |-> r.st, err |-> r.err, seq |-> sq, data |-> data,
              key |-> IF "key" \in DOMAIN call THEN call.key ELSE 0]

\* the top-level calls that call themselves again when the commit conflicted
retriesNone(op) == FALSE

retries(op) == op \in {"Insert", "Update", "Upsert", "UpdateMatching"}

\* insertTestData: record k has Name k and Category 1
TestData(k) == [Name |-> k, Category |-> 1, Bad |-> "ok"]

RECURSIVE insertTestData(_, _)
insertTestData(st, keys) ==
    IF keys = <<>> THEN st
    ELSE insertTestData(TxInsert(st, <<"Category", "Name">>, Head(keys),
                                 TestData(Head(keys))).st,
                        Tail(keys))

\* the calls of goroutine p: it writes under key p, with its own Name or with
\* Name 1, and passes queries that match other goroutines' records
ConcData(p) ==
    {[Name |-> p, Category |-> c, Bad |-> "ok"] : c \in {1, MaxVal}}
      \cup {[Name |-> 1, Category |-> 1, Bad |-> "ok"]}
ConcCalls(p) ==
    [op : {"Insert"}, key : {p}, data : ConcData(p), ref : {FALSE}, sameType : {FALSE}]
      \cup [op : {"Update", "Upsert"}, key : {p}, data : ConcData(p)]
      \cup [op : {"Delete"}, key : {p}, data : {TestData(p)}]
      \cup [op : {"UpdateMatching"}, data : {TestData(p)},
            query : {Where("Category", Crit("eq", 1))},
            fn : {[field |-> "Category", value |-> MaxVal, fail |-> 0]}]
      \cup [op : {"UpdateMatching"}, data : {TestData(p)},
            query : {Where(Key, Crit("eq", p))},
            fn : {[field |-> "Name", value |-> 1, fail |-> 0]}]
      \cup [op : {"DeleteMatching"}, data : {TestData(p)},
            query : {Where("Category", Crit("eq", 1))}]

\* goroutine p, with its key field at zero, asks for the next sequence value
\* or brings its own key
SeqCalls(p) ==
    [op : {"Insert"}, key : {NextSequence, p},
     data : [Key : {0}, Name : {1, p}, Category : {1}, Bad : {"ok"}],
     ref : BOOLEAN, sameType : BOOLEAN]

NoneStarted == \A p \in Procs : procs[p].pc = "idle"

\* the test inserts its data before it starts the goroutines
Setup ==
    /\ NoneStarted
    /\ store = EmptyStore
    /\ store' = insertTestData(store, Ascending(Keys))
    /\ UNCHANGED <<pre, last, sequences, procs, txn>>

\* goroutine p enters call: s.Badger().Update begins a transaction
Begin(p, call) ==
    /\ procs[p].pc = "idle"
    /\ procs' = [procs EXCEPT ![p] = [pc |-> "open", call |-> call, snap |-> store,
                                      data |-> call.data]]
    /\ UNCHANGED <<store, pre, last, sequences, txn>>

Go(p) == \E call \in ConcCalls(p) : Begin(p, call)
GoSeq(p) == \E call \in SeqCalls(p) : Begin(p, call)

\* the call of goroutine p calls itself after a conflict
Retry(p) ==
    /\ procs[p].pc = "retry"
    /\ procs' = [procs EXCEPT ![p].pc = "open", ![p].snap = store]
    /\ UNCHANGED <<store, pre, last, sequences, txn>>

\* The Tx function of goroutine p's call runs and the transaction ends: it is
\* discarded when the function returned an error, and else committed.
Commit(p) ==
    /\ procs[p].pc = "open"
    /\ procs[p].call.op = "Insert" /\ procs[p].call.key = NextSequence
         => sequences < MaxSeq
    /\ \E order \in IndexOrders :
       \E r \in {TxCall(procs[p].call, procs[p].snap, order, procs[p].data, sequences)} :
         LET me == procs[p]
             cells == Reads(me.call, me.snap, r.key)
             done == [pc |-> "done", call |-> me.call, data |-> r.data,
                      key |-> r.key, err |-> r.err]
         IN  /\ sequences' = r.seq
             /\ IF r.err # "nil"
                THEN /\ procs' = [procs EXCEPT ![p] = done]
                     /\ UNCHANGED store
                ELSE IF Wrote(me.call, me.snap) /\ Conflict(me.snap, store, cells)
                THEN /\ procs' = [procs EXCEPT ![p] =
                                    IF retries(me.call.op)
                                    THEN [me EXCEPT !.pc = "retry", !.data = r.data]
                                    ELSE [done EXCEPT !.err = "ErrConflict"]]
                     /\ UNCHANGED store
                ELSE /\ procs' = [procs EXCEPT ![p] = done]
                     /\ store' = Overlay(store, r.st, cells)
    /\ UNCHANGED <<pre, last, txn>>

ConcNext ==
    \/ Setup
    \/ \E p \in Procs : Go(p)
    \/ \E p \in Procs : Retry(p)
    \/ \E p \in Procs : Commit(p)

ConcSpec == Init /\ [][ConcNext]_vars

\* The same goroutines step by step.  The Tx function of a call runs on the
\* transaction's snapshot, so its result r is known when the transaction
\* begins; the commit is the step that meets the other transactions.  tries
\* counts the transactions of the call.
Running(p, call, data, tries) ==
    \E order \in IndexOrders :
      \E r \in {TxCall(call, store, order, data, sequences)} :
        /\ procs' = [procs EXCEPT ![p] =
                       [pc |-> "open", call |-> call, snap |-> store, data |-> data,
                        tries |-> tries, r |-> r, wrote |-> Wrote(call, store),
                        cells |-> Reads(call, store, r.key)]]
        /\ UNCHANGED <<store, pre, last, sequences, txn>>

\* goroutine p writes by key, or updates the records whose key is p
FairCalls(p) ==
    {call \in ConcCalls(p) :
       \/ call.op \in {"Insert", "Update", "Upsert", "Delete"}
       \/ call.op = "UpdateMatching" /\ call.fn.field = "Name"}

GoRun(p) ==
    /\ procs[p].pc = "idle"
    /\ \E call \in FairCalls(p) : Running(p, call, call.data, 1)

\* a call that, after a conflict, commits the same transaction once more
RetryRunStale(p) ==
    /\ procs[p].pc = "retry"
    /\ procs' = [procs EXCEPT ![p].pc = "open"]
    /\ UNCHANGED <<store, pre, last, sequences, txn>>

\* return s.Insert(key, data): s.Badger().Update begins a new transaction
RetryRun(p) ==
    /\ procs[p].pc = "retry"
    /\ Running(p, procs[p].call, procs[p].data, procs[p].tries + 1)

\* the transaction of goroutine p ends
End(p) ==
    /\ procs[p].pc = "open"
    /\ \E me \in {procs[p]} :
         \E done \in {[pc |-> "done", call |-> me.call, data |-> me.r.data,
                        key |-> me.r.key, err |-> me.r.err, tries |-> me.tries]} :
           IF me.r.err # "nil"
           THEN /\ procs' = [procs EXCEPT ![p] = done]
                /\ UNCHANGED store
           ELSE IF me.wrote /\ Conflict(me.snap, store, me.cells)
           THEN /\ procs' = [procs EXCEPT ![p] =
                               IF retries(me.call.op)
                               THEN [me EXCEPT !.pc = "retry", !.data = me.r.data]
                               ELSE [done EXCEPT !.err = "ErrConflict"]]
                /\ UNCHANGED store
           ELSE /\ procs' = [procs EXCEPT ![p] = done]
                /\ store' = Overlay(store, me.r.st, me.cells)
    /\ UNCHANGED <<pre, last, sequences, txn>>

FairNext ==
    \/ Setup
    \/ \E p \in Procs : GoRun(p)
    \/ \E p \in Procs : RetryRun(p)
    \/ \E p \in Procs : End(p)

\* A fair scheduler: a goroutine that can take its next step, the end of its
\* transaction or the call of itself, takes it in the end.
FairSpec ==
    /\ Init
    /\ [][FairNext]_vars
    /\ \A p \in Procs : WF_vars(RetryRun(p)) /\ WF_vars(End(p))

\* goroutines inserting records of a type with a key field
SeqNext ==
    \/ \E p \in Procs : GoSeq(p)
    \/ \E p \in Procs : Retry(p)
    \/ \E p \in Procs : Commit(p)

SeqSpec == Init /\ [][SeqNext]_vars

\* callers that write with Insert, Update and Delete and query with Find(Q1.Or(Q2))
FindOrCall == Idle /\ Alone /\ \E query \in OrQueries : Find(query)

OrNext ==
    \/ InsertCall
    \/ UpdateCall
    \/ DeleteCall
    \/ FindOrCall
    \/ Done

OrSpec == Init /\ [][OrNext]_vars

\* ----------------------------------------------------------------- ForEach
\* ForEach runs in a read-only transaction; calls are the calls of fn
ForEach(query, keyField, fail) ==
    \E tie \in TiesOf(query) :
      \E r \in {forEach(store, query, keyField, fail, tie)} :
        /\ last' = [op |-> "ForEach", query |-> query, fail |-> fail,
                    calls |-> r.calls, err |-> r.err]
        /\ pre' = store
        /\ UNCHANGED store

\* the queries passed to ForEach, and the names fn fails on
EachQueries ==
    {NilQuery} \cup SimpleQueries \cup OrQueries \cup Or2Queries
      \cup {SortBy(q, <<"Name">>) : q \in {NilQuery} \cup CategoryEq}
      \cup {Reverse(SortBy(q, <<"Name">>)) : q \in {NilQuery} \cup CategoryEq}
EachFails == {0} \cup Names

ForEachCall ==
    /\ Idle
    /\ Alone
    /\ \E query \in EachQueries, fail \in EachFails : ForEach(query, "", fail)

\* callers that insert and walk the records with ForEach
EachNext ==
    \/ InsertCall
    \/ ForEachCall
    \/ Done

EachSpec == Init /\ [][EachNext]_vars

\* ------------------------------------------------- Find into a filled slice
\* Find(&result, query) with result holding the elements held
FindInto(held, query) ==
    \E tie \in TiesOf(query) :
      \E r \in {findResult(store, held, query, tie)} :
        /\ last' = [op |-> "Find", query |-> query, held |-> held, out |-> r.out,
                    result |-> r.result, err |-> r.err]
        /\ pre' = store
        /\ UNCHANGED store

\* the slices passed as result, and the queries: iterated, sorted, and
\* answered by the direct index lookup
Helds == {<<>>, <<MaxKey>>, <<MaxKey, 1>>}
IntoQueries ==
    {NilQuery} \cup SimpleQueries \cup HintedQueries \cup BadIndexQueries
      \cup {SortBy(q, <<"Name">>) : q \in {NilQuery} \cup CategoryEq}
      \cup {SortBy(Index(q, "Category"), <<"Name">>) : q \in CategoryEq}

FindIntoCall ==
    /\ Idle
    /\ Alone
    /\ \E held \in Helds, query \in IntoQueries : FindInto(held, query)

\* callers that insert and call Find with slices that hold elements
IntoNext ==
    \/ InsertCall
    \/ FindIntoCall
    \/ Done

IntoSpec == Init /\ [][IntoNext]_vars

\* ------------------------------------------ reads of a type with a key field
\* Find and FindOne into values of a type that declares Key as its key field
FindKeyed(query) ==
    \E tie \in TiesOf(query) :
      \E r \in {findQuery(store, query, tie)} :
        /\ last' = [op |-> "Find", query |-> query, out |-> r.out,
                    records |-> findRecords(store, "Key", r.out), err |-> r.err]
        /\ pre' = store
        /\ UNCHANGED store

FindOneKeyed(query) ==
    \E r \in {findOneQuery(store, query, Ascending(Keys))} :
      /\ last' = [op |-> "FindOne", query |-> query, result |-> r.result,
                  records |-> findRecords(store, "Key",
                                          IF r.err = "nil" THEN <<r.result>> ELSE <<>>),
                  err |-> r.err]
      /\ pre' = store
      /\ UNCHANGED store

\* the queries on the type with a key field: iterated, hinted, sorted, with
\* an OR-branch
KeyedQueries ==
    {NilQuery} \cup NameEq \cup CategoryEq
      \cup {Index(q, "Category") : q \in CategoryEq}
      \cup {SortBy(NilQuery, <<"Name">>), Reverse(SortBy(NilQuery, <<"Name">>))}
      \cup {Or(q, b) : q \in NameEq, b \in NameEq}

FindKeyedCall == Idle /\ Alone /\ \E query \in KeyedQueries : FindKeyed(query)
FindOneKeyedCall ==
    Idle /\ Alone /\ \E query \in KeyedQueries : query.sort = <<>> /\ FindOneKeyed(query)
ForEachKeyedCall ==
    Idle /\ Alone /\ \E query \in KeyedQueries : ForEach(query, "Key", 0)

\* callers that write records whose key field differs from their key and
\* read them back
ReadNext ==
    \/ UpsertKeyCall
    \/ GetCall
    \/ FindKeyedCall
    \/ FindOneKeyedCall
    \/ ForEachKeyedCall
    \/ Done

ReadSpec == Init /\ [][ReadNext]_vars

\* --------------------------------------------- the caller's own transaction
\* The caller begins a transaction on the engine, passes it to the Tx
\* functions and commits or discards it.  txn.view is what the transaction
\* reads: the store when it began, with its own writes; txn.before and txn.err
\* are the view before the last Tx call in it and what that call returned.

\* tx.Get(gk): the error of the primary-key lookup; a discarded transaction
\* answers ErrDiscardedTxn
txGet(tx, key) ==
    IF tx.state = "discarded" THEN "ErrDiscardedTxn"
    ELSE IF Has(tx.view.data, key) THEN "nil"
    ELSE "ErrKeyNotFound"

\* TxGet: only ErrKeyNotFound is looked for; after any other error item is
\* nil and item.Value dereferences it
TxGetOn(tx, key, keyField) ==
    IF txGet(tx, key) = "ErrKeyNotFound" THEN [value |-> "none", err |-> "ErrNotFound"]
    ELSE IF txGet(tx, key) # "nil" THEN [value |-> "none", err |-> "panic"]
    ELSE TxGet(tx.view, key, keyField)

\* TxInsert: if err != badger.ErrKeyNotFound { return ErrKeyExists }
TxInsertOn(tx, order, key, data) ==
    IF txGet(tx, key) # "ErrKeyNotFound" THEN [st |-> tx.view, err |-> "ErrKeyExists"]
    ELSE TxInsert(tx.view, order, key, data)

TxUpdateOn(tx, order, key, data) ==
    IF txGet(tx, key) = "ErrKeyNotFound" THEN [st |-> tx.view, err |-> "ErrNotFound"]
    ELSE IF txGet(tx, key) # "nil" THEN [st |-> tx.view, err |-> txGet(tx, key)]
    ELSE TxUpdate(tx.view, order, key, data)

TxUpsertOn(tx, order, key, data) ==
    IF txGet(tx, key) \notin {"nil", "ErrKeyNotFound"}
    THEN [st |-> tx.view, err |-> txGet(tx, key)]
    ELSE TxUpsert(tx.view, order, key, data)

TxDeleteOn(tx, order, key) ==
    IF txGet(tx, key) = "ErrKeyNotFound" THEN [st |-> tx.view, err |-> "ErrNotFound"]
    ELSE IF txGet(tx, key) # "nil" THEN [st |-> tx.view, err |-> txGet(tx, key)]
    ELSE TxDelete(tx.view, order, key)

\* s.Badger().NewTransaction(true)
NewTransaction ==
    /\ Idle
    /\ txn.state # "open"
    /\ txn' = [state |-> "open", view |-> store, before |-> store, err |-> "nil"]
    /\ UNCHANGED <<store, pre, last, sequences, procs>>

\* txn.Discard(): the writes are dropped and every later Get fails
Discard ==
    /\ Idle
    /\ txn.state = "open"
    /\ txn' = [state |-> "discarded", view |-> EmptyStore, before |-> EmptyStore,
               err |-> "nil"]
    /\ UNCHANGED <<store, pre, last, sequences, procs>>

\* txn.Commit(): the writes of the transaction become the store
TxnCommit ==
    /\ Idle
    /\ txn.state = "open"
    /\ store' = txn.view
    /\ pre' = store
    /\ last' = [op |-> "Commit", before |-> txn.before, call |-> txn.err, err |-> "nil"]
    /\ txn' = NoTxn
    /\ UNCHANGED <<sequences, procs>>

\* a Tx function has returned r: its writes stay in the transaction
Called(op, key, r) ==
    /\ txn' = [txn EXCEPT !.view = r.st, !.before = txn.view, !.err = r.err]
    /\ last' = [op |-> op, key |-> key, engine |-> txGet(txn, key), err |-> r.err]
    /\ pre' = store
    /\ UNCHANGED <<store, sequences, procs>>

InTxn == Idle /\ txn.state \in {"open", "discarded"}

\* what the caller writes in its transactions: records of one category, and
\* a new unique value for every record
TxnData == {d \in Data : d.Bad = "ok" /\ d.Category = 1}
TxnFns == [field : {"Name"}, value : Names, fail : {0}]

TxInsertCall ==
    /\ InTxn
    /\ \E key \in Keys, data \in TxnData, order \in IndexOrders :
         \E r \in {TxInsertOn(txn, order, key, data)} : Called("TxInsert", key, r)
TxUpdateCall ==
    /\ InTxn
    /\ \E key \in Keys, data \in TxnData, order \in IndexOrders :
         \E r \in {TxUpdateOn(txn, order, key, data)} : Called("TxUpdate", key, r)
TxUpsertCall ==
    /\ InTxn
    /\ \E key \in Keys, data \in TxnData, order \in IndexOrders :
         \E r \in {TxUpsertOn(txn, order, key, data)} : Called("TxUpsert", key, r)
TxDeleteCall ==
    /\ InTxn
    /\ \E key \in Keys, order \in IndexOrders :
         \E r \in {TxDeleteOn(txn, order, key)} : Called("TxDelete", key, r)
TxUpdateMatchingCall ==
    /\ Idle
    /\ txn.state = "open"
    /\ \E fn \in TxnFns, order \in IndexOrders :
         \E r \in {updateQuery(txn.view, order, NilQuery, fn, Ascending(Keys))} :
           Called("TxUpdateMatching", r.at, r)
TxGetCall ==
    /\ InTxn
    /\ \E key \in Keys :
         \E r \in {TxGetOn(txn, key, "")} :
           /\ last' = [op |-> "TxGet", key |-> key, engine |-> txGet(txn, key),
                       value |-> r.value, err |-> r.err]
           /\ pre' = store
           /\ UNCHANGED <<store, sequences, procs, txn>>

\* a caller that works through transactions of its own
TxnNext ==
    \/ NewTransaction
    \/ Discard
    \/ TxnCommit
    \/ TxInsertCall
    \/ TxUpdateCall
    \/ TxUpsertCall
    \/ TxDeleteCall
    \/ TxUpdateMatchingCall
    \/ TxGetCall
    \/ Done

TxnSpec == Init /\ [][TxnNext]_vars

\* ------------------------------------------------ criteria across kinds
\* a criterion is tested against a field value
Test(c, recordValue) ==
    \E r \in {testAcross(c, recordValue)} :
      /\ last' = [op |-> "test", criterion |-> c, value |-> recordValue,
                  ok |-> r.ok, err |-> r.err]
      /\ UNCHANGED <<store, pre>>

\* field values and comparison values of the field's kind, and nil
Kinded == Vals \cup {0, Nil}
KindedCriteria ==
    {Crit(op, v) : op \in {"eq", "ne", "gt", "lt", "le", "ge"}, v \in Kinded}
      \cup {CritIn(vs) : vs \in InLists(Kinded)}

TestCall ==
    /\ Idle
    /\ Alone
    /\ \E c \in KindedCriteria, recordValue \in Kinded : Test(c, recordValue)

\* criteria tested against values of their own and of another kind
KindNext ==
    \/ TestCall
    \/ Done

KindSpec == Init /\ [][KindNext]_vars

\* ------------------------------------------------- SubQuery in a MatchFunc
Executions ==
    {"Find", "FindOne", "Count", "ForEach", "UpdateMatching", "DeleteMatching", "Aggregate"}

\* Where("Name").MatchFunc(f), alone, after an indexed criterion, with an
\* Index hint, and sorted; f starts a SubQuery
MatchFuncBases ==
    {Where("Name", Crit("fn", 0))}
      \cup {And(q, "Name", Crit("fn", 0)) : q \in CategoryEq}
      \cup {And(Index(q, "Category"), "Name", Crit("fn", 0)) : q \in CategoryEq}
MatchFuncQueries == MatchFuncBases \cup {SortBy(q, <<"Name">>) : q \in MatchFuncBases}

\* An execution of query under transaction tx hands a record to the
\* MatchFunc, which starts a SubQuery; sub is the transaction it runs in.
SubQuery(exec, query, tx, held) ==
    /\ \E k \in DOMAIN store.data :
         matchesAllFields([query EXCEPT !.index = ""], k, store.data[k])
    /\ last' = [op |-> exec, query |-> query, tx |-> tx, held |-> held,
                sub |-> executionTx(exec, query, tx, held), err |-> "nil"]
    /\ pre' = store
    /\ UNCHANGED store

SubQueryCall ==
    /\ Idle
    /\ Alone
    /\ \E exec \in Executions, query \in MatchFuncQueries, tx \in 1..MaxTx :
         \E held \in {NilTx} \cup 1..(tx - 1) : SubQuery(exec, query, tx, held)

\* callers that insert and run queries whose MatchFunc starts a SubQuery
SubNext ==
    \/ InsertCall
    \/ SubQueryCall
    \/ Done

SubSpec == Init /\ [][SubNext]_vars

\* ------------------------------------------------------------ Query.Matches
\* the queries and records passed to Matches
MatchesQueries ==
    {NilQuery} \cup CategoryEq \cup NameEq \cup HintedQueries
      \cup {Or(q, b) : q \in Branches, b \in Branches}
MatchesData == {Stored(k, d) : k \in Keys, d \in {e \in Data : e.Bad = "ok"}}

MatchesCall ==
    /\ Idle
    /\ Alone
    /\ \E query \in MatchesQueries, data \in MatchesData :
         /\ last' = [op |-> "Matches", query |-> query, data |-> data,
                     result |-> Matches(query, data), err |-> "nil"]
         /\ UNCHANGED <<store, pre>>

\* callers that test records against queries
MatchesNext ==
    \/ MatchesCall
    \/ Done

MatchesSpec == Init /\ [][MatchesNext]_vars

\* ------------------------------------------------------- building queries
\* The builder methods work on *Query values, so a query passed to Or is
\* shared with the caller.  heap maps each query the caller holds to the
\* fields Skip, Limit and Or use; skipped and limited record that Skip and
\* Limit have returned on it.
QueryIds == 1..MaxQueries
Amounts == -1..MaxSkip
NewQuery == [skip |-> 0, limit |-> 0, ors |-> <<>>, skipped |-> FALSE, limited |-> FALSE]

\* (q *Query).Skip(amount) and (q *Query).Limit(amount): [q, err]
QuerySkip(q, amount) ==
    IF amount < 0 THEN [q |-> q, err |-> "panic"]
    ELSE IF q.skip # 0 THEN [q |-> q, err |-> "panic"]
    ELSE [q |-> [Skip(q, amount) EXCEPT !.skipped = TRUE], err |-> "nil"]

QueryLimit(q, amount) ==
    IF amount < 0 THEN [q |-> q, err |-> "panic"]
    ELSE IF q.limit # 0 THEN [q |-> q, err |-> "panic"]
    ELSE [q |-> [Limit(q, amount) EXCEPT !.limited = TRUE], err |-> "nil"]

\* (q *Query).Or(query): [q, err]; the branch is kept by reference
QueryOr(heap, q, query) ==
    IF heap[query].skip # 0 \/ heap[query].limit # 0 THEN [q |-> heap[q], err |-> "panic"]
    ELSE [q |-> Or(heap[q], query), err |-> "nil"]

\* the caller builds its queries with Where(...).<operator>(...)
WhereCall ==
    /\ Idle
    /\ Alone
    /\ last' = [op |-> "build", heap |-> [q \in QueryIds |-> NewQuery],
                before |-> [q \in QueryIds |-> NewQuery], call |-> "Where",
                target |-> 0, amount |-> 0, again |-> FALSE, err |-> "nil"]
    /\ UNCHANGED <<store, pre>>

\* no builder call has panicked
Building == last.op = "build" /\ last.err = "nil"

\* builder call name on query q has returned r
Built(name, q, amount, again, r) ==
    /\ last' = [last EXCEPT !.heap[q] = r.q, !.before = last.heap, !.call = name,
                            !.target = q, !.amount = amount, !.again = again,
                            !.err = r.err]
    /\ UNCHANGED <<store, pre>>

SkipCall ==
    /\ Building
    /\ Alone
    /\ \E q \in QueryIds, amount \in Amounts :
         \E r \in {QuerySkip(last.heap[q], amount)} :
           Built("Skip", q, amount, last.heap[q].skipped, r)

LimitCall ==
    /\ Building
    /\ Alone
    /\ \E q \in QueryIds, amount \in Amounts :
         \E r \in {QueryLimit(last.heap[q], amount)} :
           Built("Limit", q, amount, last.heap[q].limited, r)

\* q.Or(query) with another query that has no OR-branch itself
OrCall ==
    /\ Building
    /\ Alone
    /\ \E q \in QueryIds, query \in QueryIds :
         /\ q # query
         /\ last.heap[q].ors = <<>>
         /\ last.heap[query].ors = <<>>
         /\ \E r \in {QueryOr(last.heap, q, query)} : Built("Or", q, 0, FALSE, r)

\* callers that build queries
BuildNext ==
    \/ WhereCall
    \/ SkipCall
    \/ LimitCall
    \/ OrCall
    \/ Done

BuildSpec == Init /\ [][BuildNext]_vars

\* ------------------------------------------------------------- RemoveIndex
\* The engine's key space as byte strings.  A key is the sequence of its
\* parts; an index name is the sequence of its characters, so that one name
\* can begin with another ("Tag", "Tags").  A type name and an encoded value
\* are single parts, and no value begins with a character of a name.
Letters == <<"x", "y", "z", "w">>
TypeNames == {"ItemTest", "Item"}
Tag == <<"T", "a", "g">>
Tags == <<"T", "a", "g", "s">>
TagIndexes == {Tag, Tags}
Field(indexName) == IF indexName = Tag THEN "Tag" ELSE "Tags"
TagData == [Tag : Vals, Tags : Vals]

\* the key of a record: the type's prefix and the encoded key
newKey(typeName, key) == <<"bh_", typeName, Letters[key]>>

\* the key of an index entry: prefix, type, index name and value concatenated
indexKeyPrefix(typeName, indexName) == <<"_bhIndex", typeName>> \o indexName
newIndexKey(typeName, indexName, value) ==
    indexKeyPrefix(typeName, indexName) \o <<Letters[value]>>

\* bytes.HasPrefix
HasPrefix(k, prefix) ==
    Len(k) >= Len(prefix) /\ SubSeq(k, 1, Len(prefix)) = prefix

\* TxInsert of a record whose fields Tag and Tags are indexed, on the key space
RECURSIVE tagIndexAdd(_, _, _, _, _)
tagIndexAdd(db, typeName, names, key, data) ==
    IF names = <<>> THEN db
    ELSE LET ik == newIndexKey(typeName, Head(names), data[Field(Head(names))])
             old == IF Has(db, ik) THEN db[ik] ELSE <<>>
         IN  tagIndexAdd(Put(db, ik, KeyListAdd(old, key)), typeName,
                         Tail(names), key, data)

TxInsertTagged(db, typeName, key, data) ==
    IF Has(db, newKey(typeName, key)) THEN [db |-> db, err |-> "ErrKeyExists"]
    ELSE [db |-> tagIndexAdd(Put(db, newKey(typeName, key), data), typeName,
                             <<Tag, Tags>>, key, data),
          err |-> "nil"]

\* removeIndex: Seek(prefix), and tx.Delete of every key while ValidForPrefix
removeIndex(db, typeName, indexName) ==
    LET prefix == indexKeyPrefix(typeName, indexName)
    IN  [k \in {x \in DOMAIN db : ~HasPrefix(x, prefix)} |-> db[k]]

OpenCall ==
    /\ Idle
    /\ Alone
    /\ last' = [op |-> "engine", db |-> EmptyMap, before |-> EmptyMap,
                call |-> "Open", type |-> "", index |-> <<>>, err |-> "nil"]
    /\ UNCHANGED <<store, pre>>

InsertTaggedCall ==
    /\ last.op = "engine"
    /\ Alone
    /\ \E typeName \in TypeNames, key \in Keys, data \in TagData :
         \E r \in {TxInsertTagged(last.db, typeName, key, data)} :
           last' = [last EXCEPT !.db = r.db, !.before = last.db,
                                !.call = "Insert", !.type = typeName,
                                !.index = <<>>, !.err = r.err]
    /\ UNCHANGED <<store, pre>>

RemoveIndexCall ==
    /\ last.op = "engine"
    /\ Alone
    /\ \E typeName \in TypeNames, indexName \in TagIndexes :
         last' = [last EXCEPT !.db = removeIndex(last.db, typeName, indexName),
                              !.before = last.db, !.call = "RemoveIndex",
                              !.type = typeName, !.index = indexName,
                              !.err = "nil"]
    /\ UNCHANGED <<store, pre>>

\* callers that insert and remove indexes
RemoveNext ==
    \/ OpenCall
    \/ InsertTaggedCall
    \/ RemoveIndexCall
    \/ Done

RemoveSpec == Init /\ [][RemoveNext]_vars

\* ------------------------------------- the steps of Update/DeleteMatching
\* updateQuery and deleteQuery step by step: runQuery opens its iterator,
\* the scan collects the matching records and returns (the deferred
\* iter.Close() has run), and only then the loop over the records writes.
\* view is the transaction's view, writes the number of records written.
ScanQueries ==
    {NilQuery} \cup CategoryEq \cup {Index(q, "Category") : q \in CategoryEq}
      \cup {Index(q, "BadIndex") : q \in CategoryEq}
      \cup {Or(q, Index(b, "BadIndex")) : q \in CategoryEq, b \in CategoryEq}
ScanFns == [field : {"Category"}, value : Vals, fail : {0, 1}]

\* a scan whose error is not looked at
afterScanAnyway(err) == "write"

\* if err != nil { return err } after runQuery
afterScan(err) == IF err # "nil" THEN "return" ELSE "write"

Matching34 == last.op = "matching"

MatchingBegin ==
    /\ Idle
    /\ Alone
    /\ \E call \in {"UpdateMatching", "DeleteMatching"}, query \in ScanQueries,
          fn \in ScanFns, order \in IndexOrders :
         last' = [op |-> "matching", call |-> call, query |-> query, fn |-> fn,
                  order |-> order, pc |-> "scan", iter |-> "none",
                  records |-> <<>>, view |-> store, writes |-> 0,
                  scanErr |-> "nil", err |-> "nil"]
    /\ UNCHANGED <<store, pre>>

\* runQuery up to s.newIterator: validateIndex may return before it
ScanOpen ==
    /\ Matching34 /\ last.pc = "scan" /\ last.iter = "none"
    /\ Alone
    /\ last' = IF validateIndex(last.query) # "nil"
               THEN [last EXCEPT !.pc = afterScan(validateIndex(last.query)),
                                 !.scanErr = validateIndex(last.query),
                                 !.err = validateIndex(last.query)]
               ELSE [last EXCEPT !.iter = "open"]
    /\ UNCHANGED <<store, pre>>

\* runQuery returns: the sink has collected the records, the iterator is closed
ScanClose ==
    /\ Matching34 /\ last.pc = "scan" /\ last.iter = "open"
    /\ Alone
    /\ \E r \in {runQuery(store, last.query, <<>>, last.query.skip, Ascending(Keys))} :
         last' = [last EXCEPT !.iter = "closed", !.records = r.out,
                              !.scanErr = r.err, !.err = r.err,
                              !.pc = afterScan(r.err)]
    /\ UNCHANGED <<store, pre>>

\* one round of `for i := range records`
WriteRecord ==
    /\ Matching34 /\ last.pc = "write" /\ last.records # <<>>
    /\ Alone
    /\ \E r \in {IF last.call = "DeleteMatching"
                 THEN deleteRecords(last.view, store, last.order, <<Head(last.records)>>)
                 ELSE updateRecords(last.view, store, last.order,
                                    <<Head(last.records)>>, last.fn)} :
         last' = [last EXCEPT !.view = r.st, !.writes = last.writes + 1,
                              !.records = Tail(last.records), !.err = r.err,
                              !.pc = IF r.err # "nil" THEN "return" ELSE "write"]
    /\ UNCHANGED <<store, pre>>

\* the call returns and s.Badger().Update commits or discards
MatchingReturn ==
    /\ Matching34
    /\ last.pc = "return" \/ (last.pc = "write" /\ last.records = <<>>)
    /\ Alone
    /\ store' = IF last.err = "nil" THEN last.view ELSE store
    /\ pre' = store
    /\ last' = [op |-> "returned", call |-> last.call, query |-> last.query,
                iter |-> last.iter, writes |-> last.writes,
                scanErr |-> last.scanErr, err |-> last.err]

ScanNext ==
    \/ InsertCall
    \/ MatchingBegin
    \/ ScanOpen
    \/ ScanClose
    \/ WriteRecord
    \/ MatchingReturn
    \/ (~Matching34 /\ Done)

ScanSpec == Init /\ [][ScanNext]_vars

\* --------------------------------------------------------------- Aggregate
\* aggregateQuery's sink: the groups are kept in result, ordered by group
\* key, and a record is filed under its group by a binary search.
MaxStream == 3
GroupBys ==
    {<<>>, <<"Category">>, <<"Name">>, <<"Category", "Name">>,
     <<"Name", "Category">>, <<"Missing">>}
Streamed == [Name : Names, Category : Vals]

\* the function handed to sort.Search, with >= turned around
RECURSIVE groupProbeReversed(_, _)
groupProbeReversed(group, grouping) ==
    IF group = <<>> THEN [ok |-> TRUE, equal |-> TRUE]
    ELSE LET c == compare(Head(group), Head(grouping))
         IN  IF c # 0 THEN [ok |-> c <= 0, equal |-> FALSE]
             ELSE groupProbeReversed(Tail(group), Tail(grouping))

\* the function handed to sort.Search: is group at or after grouping;
\* equal is what it leaves in allEqual
RECURSIVE groupProbe(_, _)
groupProbe(group, grouping) ==
    IF group = <<>> THEN [ok |-> TRUE, equal |-> TRUE]
    ELSE LET c == compare(Head(group), Head(grouping))
         IN  IF c # 0 THEN [ok |-> c >= 0, equal |-> FALSE]
             ELSE groupProbe(Tail(group), Tail(grouping))

\* sort.Search(len(result), f): binary search for the smallest index in
\* [lo, hi) at which f holds, hi if none; indexes count from 0
RECURSIVE Search(_, _, _, _, _)
Search(result, grouping, lo, hi, allEqual) ==
    IF lo >= hi THEN [i |-> lo, allEqual |-> allEqual]
    ELSE LET h == (lo + hi) \div 2
             f == groupProbe(result[h + 1].group, grouping)
         IN  IF ~f.ok THEN Search(result, grouping, h + 1, hi, allEqual \/ f.equal)
             ELSE Search(result, grouping, lo, h, allEqual \/ f.equal)

\* the sink of aggregateQuery for one record: [result, err]
aggregateSink(result, groupBy, record) ==
    IF groupBy = <<>>
    THEN [result |-> [result EXCEPT ![1].reduction = Append(@, record)], err |-> "nil"]
    ELSE IF \E j \in 1..Len(groupBy) : groupBy[j] \notin DOMAIN record
    THEN [result |-> result, err |-> "FieldNotExist"]
    ELSE
      LET grouping == [j \in 1..Len(groupBy) |-> record[groupBy[j]]]
          s == Search(result, grouping, 0, Len(result), FALSE)
      IN  IF s.i < Len(result) /\ s.allEqual
          THEN [result |-> [result EXCEPT ![s.i + 1].reduction = Append(@, record)],
                err |-> "nil"]
          ELSE [result |-> SubSeq(result, 1, s.i)
                             \o <<[group |-> grouping, reduction |-> <<record>>]>>
                             \o SubSeq(result, s.i + 1, Len(result)),
                err |-> "nil"]

\* aggregateQuery before runQuery
AggregateBegin ==
    /\ Idle
    /\ Alone
    /\ \E groupBy \in GroupBys :
         last' = [op |-> "aggregate", groupBy |-> groupBy,
                  result |-> IF groupBy = <<>>
                             THEN <<[group |-> <<>>, reduction |-> <<>>]>>
                             ELSE <<>>,
                  streamed |-> <<>>, err |-> "nil"]
    /\ UNCHANGED <<store, pre>>

\* runQuery hands the sink one more record
StreamRecord ==
    /\ last.op = "aggregate" /\ last.err = "nil"
    /\ Len(last.streamed) < MaxStream
    /\ Alone
    /\ \E record \in Streamed :
         \E r \in {aggregateSink(last.result, last.groupBy, record)} :
           last' = [last EXCEPT !.result = r.result, !.err = r.err,
                                !.streamed = Append(@, record)]
    /\ UNCHANGED <<store, pre>>

AggNext ==
    \/ AggregateBegin
    \/ StreamRecord
    \/ Done

AggSpec == Init /\ [][AggNext]_vars

\* --------------------------------------------------------------- bookmarks
\* The transient fields of a *Query: writable, subquery and bookmark
\* ("nil", or "iter": a bookmark of an iterator).  q is the query as built.
Transient(q) == [q |-> q, writable |-> FALSE, subquery |-> FALSE, bookmark |-> "nil"]

\* the queries a MatchFunc passes to SubQuery / SubAggregateQuery: iterated,
\* answered from the index, sorted, and with an Index hint that names no field
SubQueries ==
    {NilQuery} \cup CategoryEq \cup {Index(q, "Category") : q \in CategoryEq}
      \cup {SortBy(q, <<"Name">>) : q \in CategoryEq}
      \cup {Index(q, "BadIndex") : q \in CategoryEq}
SubCalls == {"none", "SubQuery", "SubAggregateQuery"}

\* query.writable as the execution sets it before it runs the query
setWritable(exec, o) ==
    IF exec \in {"UpdateMatching", "DeleteMatching"} THEN [o EXCEPT !.writable = TRUE]
    ELSE IF exec \in {"Find", "FindOne", "Aggregate"} THEN [o EXCEPT !.writable = FALSE]
    ELSE o

\* runQuery(o) while its loop runs: the fields of the *Query the criteria
\* point to.  With SortBy the loop runs on qCopy and o is left as it is.
runQueryDuring(o) ==
    IF Len(o.q.sort) > 0 THEN o
    ELSE IF (o.writable \/ o.subquery) /\ o.bookmark = "nil"
    THEN [o EXCEPT !.bookmark = "iter"]
    ELSE o

\* runQuery(o) when it has returned: validateIndex returns before the
\* deferred function is set up, runQuerySort works on qCopy, and otherwise
\* the deferred function sets query.bookmark = nil
runQueryAfter(o) ==
    IF validateIndex(o.q) # "nil" THEN o
    ELSE IF Len(o.q.sort) > 0 THEN o
    ELSE [o EXCEPT !.bookmark = "nil"]

\* findQuery(o) while it matches and when it has returned; findByIndexQuery
\* touches neither field
findQueryDuring(o) ==
    IF isFindByIndexQuery(o.q) THEN o ELSE runQueryDuring(o)
findQueryAfter(o) ==
    IF isFindByIndexQuery(o.q) THEN o ELSE runQueryAfter(o)

\* RecordAccess.SubQuery / SubAggregateQuery with parent as r.query: the
\* sub-query when the call has returned
subQueryAfter(call, parent, sub) ==
    LET o == [sub EXCEPT !.subquery = TRUE, !.bookmark = parent.bookmark,
                         !.writable = FALSE]
    IN  IF call = "SubQuery" THEN findQueryAfter(o)
        ELSE IF call = "SubAggregateQuery" THEN runQueryAfter(o)
        ELSE sub

\* the execution exec of root, whose MatchFunc makes the call on sub for a
\* record it is handed: [root, sub] when the execution has returned
execution(exec, call, root, sub) ==
    LET o == setWritable(exec, root)
        during == IF exec = "Find" THEN findQueryDuring(o) ELSE runQueryDuring(o)
        after == IF exec = "Find" THEN findQueryAfter(o) ELSE runQueryAfter(o)
    IN  [root |-> after, sub |-> subQueryAfter(call, during, sub)]

\* the caller runs a query, new or used before, whose MatchFunc is handed a
\* record
Executed(exec, call, root, sub) ==
    /\ \E k \in DOMAIN store.data :
         matchesAllFields([root.q EXCEPT !.index = ""], k, store.data[k])
    /\ \E r \in {execution(exec, call, root, sub)} :
         last' = [op |-> "executed", exec |-> exec, call |-> call,
                  root |-> r.root, sub |-> r.sub, err |-> "nil"]
    /\ pre' = store
    /\ UNCHANGED store

ExecuteNew ==
    /\ Idle
    /\ Alone
    /\ \E exec \in Executions, call \in SubCalls, query \in MatchFuncQueries,
          sub \in SubQueries :
         Executed(exec, call, Transient(query), Transient(sub))

ExecuteAgain ==
    /\ last.op = "executed"
    /\ Alone
    /\ \E exec \in Executions, call \in SubCalls :
         Executed(exec, call, last.root, last.sub)

\* callers that insert and run queries whose MatchFunc runs sub-queries
MarkNext ==
    \/ InsertCall
    \/ ExecuteNew
    \/ ExecuteAgain
    \/ Done

MarkSpec == Init /\ [][MarkNext]_vars

\* ------------------------------------------------------ the iterator's batch
\* The iterator fetches the candidate keys from the engine's cursor in
\* batches of up to Batch keys and hands them out one by one.  The candidates
\* are the keys 1..n in the engine's order; cursor is the position of the
\* engine's cursor, n + 1 when it is past the last candidate.
Batch == 2
MaxCand == 5

\* nextKeys: the next batch and the cursor after it
nextKeys(cursor, n) ==
    LET to == IF cursor + Batch - 1 > n THEN n ELSE cursor + Batch - 1
    IN  [keys |-> [i \in 1..(to - cursor + 1) |-> cursor + i - 1], cursor |-> to + 1]

\* iterator.Next(): [key, cursor, keyCache]; key 0 when there is no more
iterNext(cursor, keyCache, n) ==
    LET fetched == IF keyCache = <<>> THEN nextKeys(cursor, n)
                   ELSE [keys |-> keyCache, cursor |-> cursor]
    IN  IF fetched.keys = <<>> THEN [key |-> 0, cursor |-> fetched.cursor, keyCache |-> <<>>]
        ELSE [key |-> Head(fetched.keys), cursor |-> fetched.cursor,
              keyCache |-> Tail(fetched.keys)]

\* Close of an iterator opened on a bookmark that leaves the cursor where
\* the nested scan ended
closeNestedKeep(before, now) == now

\* Close of an iterator opened on a bookmark: the cursor it shared is put
\* back where the outer scan had it
closeNested(before, now) == before

\* a nested runQuery on the same type: opened on the outer query's bookmark
\* it works on the outer cursor, seeks to the first candidate and reads to
\* the end; opened without one it has a cursor of its own
nestedScan(bookmark, cursor, n) ==
    IF bookmark = "nil" THEN cursor ELSE closeNested(cursor, n + 1)

\* runQuery has made its iterator and, for a writable query, its bookmark
CursorBegin ==
    /\ Idle
    /\ Alone
    /\ \E n \in 0..MaxCand, writable \in BOOLEAN :
         last' = [op |-> "cursor", n |-> n,
                  root |-> runQueryDuring([Transient(NilQuery) EXCEPT !.writable = writable]),
                  cursor |-> 1, keyCache |-> <<>>, visited |-> <<>>, subs |-> 0,
                  done |-> FALSE, err |-> "nil"]
    /\ UNCHANGED <<store, pre>>

\* one round of `for k, v := iter.Next(); k != nil; k, v = iter.Next()`; the
\* MatchFunc of the query may run a SubQuery on the record
CursorNext ==
    /\ last.op = "cursor" /\ ~last.done
    /\ Alone
    /\ \E call \in {"none", "SubQuery"} :
         \E r \in {iterNext(last.cursor, last.keyCache, last.n)} :
           last' = IF r.key = 0
                   THEN [last EXCEPT !.done = TRUE, !.cursor = r.cursor]
                   ELSE [last EXCEPT
                           !.visited = Append(@, r.key),
                           !.keyCache = r.keyCache,
                           !.subs = IF call = "SubQuery" THEN @ + 1 ELSE @,
                           !.cursor = IF call = "SubQuery"
                                      THEN nestedScan(last.root.bookmark, r.cursor, last.n)
                                      ELSE r.cursor]
    /\ UNCHANGED <<store, pre>>

CursorSteps ==
    \/ CursorBegin
    \/ CursorNext
    \/ Done

CursorSpec == Init /\ [][CursorSteps]_vars

\* ---------------------------------------------- the order of field criteria
\* matchesAllFields visits q.fieldCriteria, a Go map, in an order that the
\* run-time chooses; order is the order it takes.  Result [ok, err].
RECURSIVE matchesAllCriteriaAcross(_, _)
matchesAllCriteriaAcross(criteria, value) ==
    IF criteria = <<>> THEN [ok |-> TRUE, err |-> "nil"]
    ELSE LET r == testAcross(Head(criteria), value)
         IN  IF r.err # "nil" THEN [ok |-> FALSE, err |-> r.err]
             ELSE IF ~r.ok THEN [ok |-> FALSE, err |-> "nil"]
             ELSE matchesAllCriteriaAcross(Tail(criteria), value)

RECURSIVE matchesAllFieldsIn(_, _, _, _)
matchesAllFieldsIn(q, order, key, value) ==
    IF IsEmpty(q) \/ order = <<>> THEN [ok |-> TRUE, err |-> "nil"]
    ELSE
      LET field == Head(order)
          criteria == q.fieldCriteria[field]
      IN  IF field = q.index /\ ~q.badIndex /\ ~hasMatchFunc(criteria)
          THEN matchesAllFieldsIn(q, Tail(order), key, value)
          ELSE LET r == matchesAllCriteriaAcross(criteria,
                          IF field = Key THEN key ELSE value[field])
               IN  IF r.err # "nil" THEN [ok |-> FALSE, err |-> r.err]
                   ELSE IF ~r.ok THEN [ok |-> FALSE, err |-> "nil"]
                   ELSE matchesAllFieldsIn(q, Tail(order), key, value)

\* the loop of runQuery over the records in key order: [out, err]
RECURSIVE iterateIn(_, _, _, _, _)
iterateIn(st, q, order, cand, out) ==
    IF cand = <<>> THEN [out |-> out, err |-> "nil"]
    ELSE LET r == matchesAllFieldsIn(q, order, Head(cand), st.data[Head(cand)])
         IN  IF r.err # "nil" THEN [out |-> out, err |-> r.err]
             ELSE iterateIn(st, q, order, Tail(cand),
                            IF r.ok THEN Append(out, Head(cand)) ELSE out)

\* Find, Count and DeleteMatching under one order: what the caller gets,
\* the error and the store afterwards
outcomeIn(exec, st, q, order, indexOrder) ==
    LET r == iterateIn(st, q, order, Ascending(DOMAIN st.data), <<>>)
        deleted == IF exec = "DeleteMatching" /\ r.err = "nil"
                   THEN deleteRecords(st, st, indexOrder, r.out)
                   ELSE [st |-> st, err |-> r.err]
    IN  [result |-> IF r.err # "nil" \/ exec = "DeleteMatching" THEN <<>>
                    ELSE IF exec = "Count" THEN <<Len(r.out)>> ELSE r.out,
         err |-> deleted.err,
         st |-> BadgerUpdate(st, deleted)]

\* the orders in which the fields of q can be visited
FieldOrders(q) ==
    LET fields == DOMAIN q.fieldCriteria
    IN  {o \in [1..Cardinality(fields) -> fields] :
           \A i, j \in DOMAIN o : o[i] = o[j] => i = j}

\* Where("Name").Gt(x).And("Category").Eq(v), x a name or nil
OrderQueries ==
    {And(Where("Name", Crit("gt", x)), "Category", Crit("eq", v)) :
       x \in {Nil, 1}, v \in Vals}

ExecuteIn ==
    /\ Idle
    /\ Alone
    /\ \E exec \in {"Find", "Count", "DeleteMatching"}, query \in OrderQueries :
         \E order \in FieldOrders(query) :
           \E r \in {outcomeIn(exec, store, query, order, <<"Category", "Name">>)} :
             /\ store' = r.st
             /\ pre' = store
             /\ last' = [op |-> "ordered", exec |-> exec, query |-> query,
                         order |-> order, result |-> r.result, err |-> r.err]

OrderData == [Name : Names, Category : Vals, Bad : {"ok"}]
InsertOkCall == Idle /\ Alone /\ \E key \in Keys, data \in OrderData : Insert(key, data)

OrderNext ==
    \/ InsertOkCall
    \/ ExecuteIn
    \/ Done

OrderSpec == Init /\ [][OrderNext]_vars

\* -------------------------------------------------------------- properties
Mutating == {"Insert", "Update", "Upsert", "Delete", "UpdateMatching", "DeleteMatching"}

\* the record under key changed the value of field f in the last call
Changed(k, f) ==
    Has(pre.data, k) /\ Has(store.data, k) /\ pre.data[k][f] # store.data[k][f]

\* C1: every primary key listed in an index entry (index, v) belongs to an
\* existing primary record whose indexed field equals v.
IndexConsistent ==
    \A name \in IndexNames : \A v \in DOMAIN store.index[name] :
      \A i \in 1..Len(store.index[name][v]) :
        LET k == store.index[name][v][i]
        IN  Has(store.data, k) /\ store.data[k][name] = v

\* a committed call changed an indexed value or deleted a record while
\* another record stayed in the index
IndexConsistentWitness ==
    /\ last.op \in {"Update", "UpdateMatching", "Delete", "DeleteMatching"}
    /\ last.err = "nil"
    /\ \E k \in DOMAIN pre.data :
         (~Has(store.data, k) \/ Changed(k, "Category") \/ Changed(k, "Name"))
    /\ Cardinality(DOMAIN store.data) >= 2

\* C2: when a top-level mutating call returns an error, the committed
\* records and index entries are those that existed before the call.
RolledBack == last.op \in Mutating /\ last.err # "nil" => store = pre

\* an UpdateMatching that failed on the unique constraint after the
\* transaction had already written
RolledBackWitness ==
    /\ last.op = "UpdateMatching"
    /\ last.err = "ErrUniqueExists"
    /\ last.view.data # pre.data
    /\ store = pre

\* another record than key holds the unique value v in st
HeldByOther(st, key, v) == \E j \in DOMAIN st.data : j # key /\ st.data[j].Name = v

\* the call passes its key check, and encoding and the index functions succeed
ReachesIndexAdd ==
    /\ last.op \in {"Insert", "Update", "Upsert"}
    /\ last.data.Bad = "ok"
    /\ last.op = "Insert" => ~Has(pre.data, last.key)
    /\ last.op = "Update" => Has(pre.data, last.key)

FindReturns(q, k) == KeyListIn(findQuery(store, q, Ascending(Keys)).out, k)

IndexFollowsUpdate ==
    last.op \in {"Update", "Upsert", "UpdateMatching"} /\ last.err = "nil" =>
      \A k \in Keys, f \in IndexNames :
        Changed(k, f) =>
          LET a == Where(f, Crit("eq", pre.data[k][f]))
              b == Where(f, Crit("eq", store.data[k][f]))
          IN  /\ ~FindReturns(a, k) /\ ~FindReturns(Index(a, f), k)
              /\ FindReturns(b, k) /\ FindReturns(Index(b, f), k)

\* an Upsert changed the Category of an existing record while another
\* record still has the old Category
IndexFollowsUpdateWitness ==
    /\ last.op = "Upsert"
    /\ last.err = "nil"
    /\ Changed(last.key, "Category")
    /\ \E j \in DOMAIN store.data : store.data[j].Category = pre.data[last.key].Category

ToSet(seq) == {seq[i] : i \in 1..Len(seq)}
Occurrences(seq, k) == Cardinality({i \in 1..Len(seq) : seq[i] = k})

\* the record satisfies every field criterion of q
Holds(q, k, record) ==
    \A f \in DOMAIN q.fieldCriteria : \A i \in 1..Len(q.fieldCriteria[f]) :
      test(q.fieldCriteria[f][i], IF f = Key THEN k ELSE record[f])

\* the record satisfies q's field criteria or those of some OR-branch
RECURSIVE Satisfies(_, _, _)
Satisfies(q, k, record) ==
    Holds(q, k, record) \/ \E i \in 1..Len(q.ors) : Satisfies(q.ors[i], k, record)

Matching(q) == {k \in DOMAIN store.data : Satisfies(q, k, store.data[k])}

\* positions [s, s+l) of seq, clamped to its length; Limit(0) sets no limit
Range(seq, s, l) ==
    SubSeq(seq, s + 1, IF l = 0 \/ s + l > Len(seq) THEN Len(seq) ELSE s + l)

Unpage(q) == [q EXCEPT !.skip = 0, !.limit = 0]

\* C5: for a query without sort, skip or limit, Find returns exactly the
\* stored records for which all field criteria hold or all criteria of some
\* OR-branch hold.
FindExact ==
    last.op = "Find" /\ last.err = "nil" /\ last.query \in Unpaged =>
      ToSet(last.out) = Matching(last.query)

\* C6: Find returns the same records with the same multiplicity when it
\* resolves the entries of a declared index directly as when it runs the same
\* criteria without the index hint.
IndexPathAgrees ==
    /\ last.op = "Find" /\ last.err = "nil" /\ last.query \in Unpaged
    /\ isFindByIndexQuery(last.query) /\ indexExists(last.query.index)
    => LET scan == findQuery(store, Index(last.query, ""), Ascending(Keys))
       IN  \A k \in Keys : Occurrences(last.out, k) = Occurrences(scan.out, k)

\* C7: Find(Q1.Or(Q2)) returns each primary key at most once.
NoDuplicateKeys ==
    last.op = "Find" /\ Len(last.query.ors) = 1 =>
      \A i, j \in 1..Len(last.out) : last.out[i] = last.out[j] => i = j

\* Find(Q1.Or(Q2)) returned two records, one of which satisfies Q1 and Q2
NoDuplicateKeysWitness ==
    /\ last.op = "Find" /\ last.err = "nil" /\ Len(last.query.ors) = 1
    /\ Len(last.out) >= 2
    /\ \E i \in 1..Len(last.out) :
         LET k == last.out[i]
         IN  /\ Holds(last.query, k, store.data[k])
             /\ Holds(last.query.ors[1], k, store.data[k])

\* C8: Find(Q.Skip(s).Limit(l)) returns the records at positions [s, s+l)
\* of the sequence Find(Q) returns, clamped to its length.
PageIsRange ==
    last.op = "Find" /\ last.err = "nil" /\ last.query \in PagedQueries =>
      last.out = Range(findQuery(store, Unpage(last.query), Ascending(Keys)).out,
                       last.query.skip, last.query.limit)

\* C9: a query with Limit(l), l > 0, passes at most l records to its sink.
LimitRespected ==
    /\ last.op = "Find" /\ last.query.limit > 0 => Len(last.out) <= last.query.limit
    /\ last.op = "DeleteMatching" /\ last.err = "nil" /\ last.query.limit > 0 =>
         Cardinality(DOMAIN pre.data) - Cardinality(DOMAIN store.data) <= last.query.limit

\* C10: with SortBy, Find returns the range [skip, skip+limit) of the
\* sequence of all matching records ordered by the sort fields.
SortedRange ==
    last.op = "Find" /\ last.err = "nil" /\ last.query.sort # <<>> =>
      \E tie \in Ties :
        last.out = Range(sortSlice(Ascending(Matching(last.query)), store, last.query, tie),
                         last.query.skip, last.query.limit)

\* C15: Insert on a key that exists returns ErrKeyExists, Update and Delete on a
\* key that does not exist return ErrNotFound, and in each case the records and
\* the index entries are those of before the call.
KeyErrors ==
    /\ (last.op = "Insert" /\ Has(pre.data, last.key))
          => (last.err = "ErrKeyExists" /\ store = pre)
    /\ (last.op \in {"Update", "Delete"} /\ ~Has(pre.data, last.key))
          => (last.err = "ErrNotFound" /\ store = pre)

\* Insert on an existing key, with a value no other record holds, was refused,
\* and the other record of the store is still there
KeyErrorsWitness ==
    /\ last.op = "Insert"
    /\ Has(pre.data, last.key)
    /\ last.data.Bad = "ok"
    /\ ~HeldByOther(pre, last.key, last.data.Name)
    /\ pre.data[last.key].Name # last.data.Name
    /\ last.err = "ErrKeyExists"
    /\ Cardinality(DOMAIN store.data) = 2

\* the value of the caller's data d of a type with a key field
Value(d) == [Key |-> d.Key, Name |-> d.Name, Category |-> d.Category]

\* the keys that index entry (name, v) lists
Listed(st, name, v) ==
    IF Has(st.index[name], v) THEN ToSet(st.index[name][v]) ELSE {}

UpsertYields ==
    last.op = "Upsert" =>
      /\ last.err \notin {"ErrKeyExists", "ErrNotFound"}
      /\ last.err = "nil" =>
            /\ Has(store.data, last.key)
            /\ TxGet(store, last.key, "Key") = [value |-> Value(last.data), err |-> "nil"]
            /\ \A name \in IndexNames : \A v \in Names \cup Vals :
                  last.key \in Listed(store, name, v) <=> v = last.data[name]

\* C17, amended: Upsert(k, d) never returns ErrKeyExists or ErrNotFound; after
\* it succeeded a record exists under k, Get(k) yields d with a declared key
\* field holding k, and the index entries that list k are exactly those of
\* d's values.
UpsertYieldsKey ==
    last.op = "Upsert" =>
      /\ last.err \notin {"ErrKeyExists", "ErrNotFound"}
      /\ last.err = "nil" =>
            /\ Has(store.data, last.key)
            /\ TxGet(store, last.key, "Key") =
                 [value |-> [Value(last.data) EXCEPT !.Key = last.key], err |-> "nil"]
            /\ \A name \in IndexNames : \A v \in Names \cup Vals :
                  last.key \in Listed(store, name, v) <=> v = last.data[name]

\* Upsert replaced a record by one with another Name and another key field
\* value, and Upsert stored a record under a key that did not exist
UpsertYieldsKeyWitness ==
    /\ last.op = "Upsert"
    /\ last.err = "nil"
    /\ Has(pre.data, last.key)
    /\ pre.data[last.key].Name # last.data.Name
    /\ last.data.Key # last.key
    /\ \E k \in DOMAIN store.data : k # last.key

\* the records Find(q) would return on the store the last call began with
Found(q) ==
    LET r == findQuery(pre, q, Ascending(Keys))
    IN  IF r.err = "nil" THEN ToSet(r.out) ELSE {}

\* the records the last call handed to its update or delete loop, in order
Handled(q) == runQuery(pre, q, <<>>, q.skip, Ascending(Keys)).out

\* index entry (name, v) lists the same keys as before the call, leaving
\* aside the keys in S
SameEntries(S) ==
    \A name \in IndexNames : \A v \in Names \cup Vals :
      Listed(store, name, v) \ S = Listed(pre, name, v) \ S

\* C18: UpdateMatching(Q, f) applies f exactly once to each record that
\* Find(Q) would return and to no other, DeleteMatching(Q) removes exactly
\* those records, and every other record and its index entries stay as they
\* were.
MatchingExactly ==
    /\ (last.op = "UpdateMatching" /\ last.err = "nil") =>
          /\ DOMAIN store.data = DOMAIN pre.data
          /\ \A k \in DOMAIN pre.data :
                /\ Occurrences(Handled(last.query), k)
                     = IF k \in Found(last.query) THEN 1 ELSE 0
                /\ store.data[k] = IF k \in Found(last.query)
                                   THEN update(last.fn, pre.data[k]).value
                                   ELSE pre.data[k]
          /\ SameEntries(Found(last.query))
    /\ (last.op = "DeleteMatching" /\ last.err = "nil") =>
          /\ DOMAIN store.data = DOMAIN pre.data \ Found(last.query)
          /\ \A k \in DOMAIN store.data : store.data[k] = pre.data[k]
          /\ SameEntries(Found(last.query))

\* C19: FindOne(Q) returns ErrNotFound when no record matches Q, and otherwise
\* the first record of the sequence Find(Q) returns, also when the matches
\* come only from OR-branches.
FindOneIsFirst ==
    last.op = "FindOne" =>
      LET found == findQuery(store, last.query, Ascending(Keys))
      IN  found.err = "nil" =>
            IF found.out = <<>> THEN last.err = "ErrNotFound"
            ELSE last.err = "nil" /\ last.result = found.out[1]

\* C20: Count(Q) is the number of records Find(Q) returns, whichever access
\* path Find takes.
CountIsFindLen ==
    last.op = "Count" =>
      LET found == findQuery(store, last.query, Ascending(Keys))
      IN  found.err = "nil" => last.count = Len(found.out)

\* index entry (name, v) lists, once each, exactly the keys of the records
\* whose field name has the value v
IndexExact ==
    \A name \in IndexNames : \A v \in Names \cup Vals :
      /\ Listed(store, name, v) = {k \in DOMAIN store.data : store.data[k][name] = v}
      /\ \A k \in DOMAIN store.data :
           Has(store.index[name], v) => Occurrences(store.index[name][v], k) <= 1

\* C11: under every interleaving of concurrent Insert, Update, Upsert and
\* UpdateMatching calls, a call returns nil or the error of the constraint it
\* violates, never a conflict; and in the committed store every index entry
\* lists exactly the keys of the existing records with that value (no key is
\* lost) and no unique value is held by two records.
ConcurrentWrites ==
    /\ IndexExact
    /\ \A j, k \in DOMAIN store.data : store.data[j].Name = store.data[k].Name => j = k
    /\ \A p \in Procs :
         (/\ procs[p].pc = "done"
          /\ procs[p].call.op \in {"Insert", "Update", "Upsert", "UpdateMatching"})
           => procs[p].err \in {"nil", "ErrKeyExists", "ErrNotFound", "ErrUniqueExists"}

\* two goroutines were in Update at once, each moving its record to the same
\* Category: one has committed, and the other has met the conflict and is
\* about to call itself again
ConcurrentWritesWitness ==
    \E p, q \in Procs :
      /\ procs[p].pc = "done" /\ procs[p].err = "nil" /\ procs[p].call.op = "Update"
      /\ procs[q].pc = "retry" /\ procs[q].call.op = "Update"
      /\ procs[p].call.data.Category = MaxVal
      /\ procs[q].call.data.Category = MaxVal
      /\ Listed(store, "Category", MaxVal) = {p}

\* C12: no top-level call, Delete and DeleteMatching included, returns a
\* conflict error to its caller.
NoConflictReturned ==
    \A p \in Procs : procs[p].pc = "done" => procs[p].err # "ErrConflict"

\* C13: the Insert calls made with NextSequence() leave their records under
\* distinct keys that form the range 0, 1, ... without a gap, in every
\* interleaving, also when an attempt failed or was made again after a
\* conflict.
SequenceGapFree ==
    (\A p \in Procs : procs[p].pc # "idle" => procs[p].call.key = NextSequence)
      => DOMAIN store.data = 0..(Cardinality(DOMAIN store.data) - 1)

\* C14: when Insert has returned nil for data passed by reference whose key
\* field has the key's type and held zero, the key field is the key the
\* record is stored under, also after a conflict and a second attempt; when
\* data is passed by value or the types differ, data is as it was.
KeyFieldIsKey ==
    \A p \in Procs :
      (procs[p].pc = "done" /\ procs[p].err = "nil") =>
        IF procs[p].call.ref /\ procs[p].call.sameType /\ procs[p].call.data.Key = 0
        THEN procs[p].data.Key = procs[p].key /\ Has(store.data, procs[p].key)
        ELSE procs[p].data = procs[p].call.data


\* the keys fn was called with by the last ForEach, in order
CalledWith == [i \in 1..Len(last.calls) |-> last.calls[i].key]

\* C21: ForEach calls fn exactly once for every matching record; once fn has
\* returned an error for a record, fn is called for no further record and
\* ForEach returns that error.
ForEachOnce ==
    last.op = "ForEach" /\ last.err \in {"nil", "EachError"} =>
      /\ \A k \in Keys : Occurrences(CalledWith, k) <= 1
      /\ ToSet(CalledWith) \subseteq Matching(last.query)
      /\ last.err = "nil" => ToSet(CalledWith) = Matching(last.query)
      /\ \A i \in 1..Len(CalledWith) :
           each(last.fail, last.calls[i].value) # "nil" =>
             i = Len(CalledWith) /\ last.err = "EachError"
      /\ last.err = "EachError" =>
           /\ CalledWith # <<>>
           /\ each(last.fail, last.calls[Len(CalledWith)].value) = "EachError"


\* C22: Find appends the records it finds to the slice passed as result: the
\* elements the slice held before the call stay, in order, ahead of the
\* records found, whichever way the query is answered.
FindAppends ==
    last.op = "Find" /\ last.err = "nil" =>
      /\ Len(last.result) = Len(last.held) + Len(last.out)
      /\ SubSeq(last.result, 1, Len(last.held)) = last.held
      /\ SubSeq(last.result, Len(last.held) + 1, Len(last.result)) = last.out


\* the records the last Get, Find, FindOne or ForEach returned to the caller
Returned ==
    IF last.err # "nil" /\ last.op # "ForEach" THEN <<>>
    ELSE IF last.op = "Get" THEN <<last.value>>
    ELSE IF last.op \in {"Find", "FindOne"} THEN last.records
    ELSE IF last.op = "ForEach" THEN [i \in 1..Len(last.calls) |-> last.calls[i].value]
    ELSE <<>>

\* C23: every record that Get, Find, FindOne or ForEach returns for a type
\* with a declared key field has in that field the primary key the record is
\* stored under, whatever the field held when the record was written.
KeyFieldRestored ==
    \A i \in 1..Len(Returned) :
      LET v == Returned[i]
      IN  /\ Has(store.data, v.Key)
          /\ store.data[v.Key].Name = v.Name
          /\ store.data[v.Key].Category = v.Category

\* Find returns two records that were both written with another value in
\* the key field than their key
KeyFieldRestoredWitness ==
    /\ last.op = "Find"
    /\ last.err = "nil"
    /\ Len(last.records) = 2
    /\ \A i \in 1..2 : store.data[last.out[i]].Key # last.out[i]


\* C24: when the primary-key lookup inside TxGet, TxInsert, TxUpdate, TxUpsert
\* or TxDelete fails with an engine error other than key-not-found, the call
\* returns that engine error.
EngineErrorReturned ==
    /\ last.op \in {"TxGet", "TxInsert", "TxUpdate", "TxUpsert", "TxDelete"}
    /\ last.engine \notin {"nil", "ErrKeyNotFound"}
    => last.err = last.engine

\* C27: when a Tx function has returned ErrUniqueExists in the caller's
\* transaction, none of its writes becomes visible, also when the caller
\* commits the transaction.
UniqueErrorLeavesNothing ==
    last.op = "Commit" /\ last.call = "ErrUniqueExists" => store = last.before


\* C25: Eq and Ne never fail on a kind mismatch between the field value and
\* the comparison value, so that a test with Eq or Ne never returns
\* ErrTypeMismatch (only the ordering operators Gt, Lt, Ge and Le do).
EqNeNeverMismatch ==
    last.op = "test" /\ last.criterion.operator \in {"eq", "ne"} =>
      last.err # "ErrTypeMismatch"


\* C26: a SubQuery started from a MatchFunc runs in the transaction of the
\* execution that evaluates the MatchFunc, for Find, FindOne, Count, ForEach,
\* UpdateMatching, DeleteMatching and Aggregate, with or without SortBy.
SubQuerySameTx == last.op \in Executions /\ "sub" \in DOMAIN last => last.sub = last.tx


\* C28: Query.Matches(store, data) is true exactly when data satisfies every
\* field criterion of the query or satisfies some OR-branch, for queries with
\* and without an Index hint.
MatchesExactly ==
    last.op = "Matches" => (last.result <=> Satisfies(last.query, 0, last.data))


\* C29: after a sequence of builder calls that does not panic, no query that
\* is an OR-branch of another query has a non-zero skip or limit.
NoPagedBranch ==
    Building =>
      \A q \in QueryIds : \A i \in 1..Len(last.heap[q].ors) :
        /\ last.heap[last.heap[q].ors[i]].skip = 0
        /\ last.heap[last.heap[q].ors[i]].limit = 0

\* C30: Skip (Limit) on a query on which Skip (Limit) has already been called,
\* or with a negative amount, panics and leaves skip and limit unchanged.
SetTwicePanics ==
    /\ last.op = "build"
    /\ last.call \in {"Skip", "Limit"}
    /\ last.amount < 0 \/ last.again
    => last.err = "panic" /\ last.heap = last.before

\* the entries of one index of one type: the keys newIndexKey gives them
EntriesOf(typeName, indexName) ==
    {newIndexKey(typeName, indexName, v) : v \in Vals}

SinkOncePerKey ==
    last.op = "Find" /\ last.err = "nil" /\ Len(last.query.ors) >= 2 =>
      \A k \in Keys : Occurrences(last.out, k) <= 1

\* C33: Find(Q.Or(...).Skip(s)) without limit and sort passes exactly
\* max(0, m - s) records to its sink, m being the number of distinct records
\* that match Q or an OR-branch: skip discards min(s, m) records in all, and
\* a record discarded by skip is not emitted later by an OR-branch.
SkipDiscardsOnce ==
    /\ last.op = "Find" /\ last.err = "nil" /\ Len(last.query.ors) >= 1
    /\ last.query.skip > 0 /\ last.query.limit = 0 /\ last.query.sort = <<>>
    => LET m == Cardinality(Matching(last.query))
       IN  Len(last.out) = IF m > last.query.skip THEN m - last.query.skip ELSE 0

\* C34: UpdateMatching and DeleteMatching issue their first write only after
\* the matching scan has finished and its iterator is closed, and when the
\* scan returned an error they have issued no write to the transaction.
WritesAfterScan ==
    /\ (Matching34 /\ last.writes > 0) =>
          last.iter = "closed" /\ last.pc # "scan" /\ last.scanErr = "nil"
    /\ (Matching34 /\ last.scanErr # "nil") =>
          last.writes = 0 /\ last.view = store
    /\ (last.op = "returned" /\ last.scanErr # "nil") =>
          last.writes = 0 /\ last.err = last.scanErr /\ store = pre

\* a record has been written after a scan that found two
WritesAfterScanWitness ==
    /\ Matching34 /\ last.writes > 0 /\ last.records # <<>>
    /\ last.iter = "closed" /\ last.view # store

\* group key a is before group key b, field by field
RECURSIVE GroupBefore(_, _)
GroupBefore(a, b) ==
    IF a = <<>> THEN FALSE
    ELSE Head(a) < Head(b) \/ (Head(a) = Head(b) /\ GroupBefore(Tail(a), Tail(b)))

GroupOf(groupBy, record) == [j \in 1..Len(groupBy) |-> record[groupBy[j]]]

\* C35: with a non-empty group-by, after any sequence of streamed records
\* the groups are strictly ascending by group key, so no two have equal
\* keys, and the members of each group are exactly the streamed records
\* whose group-by values equal its key; with an empty group-by all streamed
\* records are members of one single group.
GroupsOrdered ==
    (last.op = "aggregate" /\ last.err = "nil") =>
      IF last.groupBy = <<>>
      THEN Len(last.result) = 1 /\ last.result[1].reduction = last.streamed
      ELSE /\ \A i, j \in 1..Len(last.result) :
                i < j => GroupBefore(last.result[i].group, last.result[j].group)
           /\ \A i \in 1..Len(last.result) :
                /\ last.result[i].reduction # <<>>
                /\ last.result[i].reduction =
                     SelectSeq(last.streamed,
                               LAMBDA record :
                                 GroupOf(last.groupBy, record) = last.result[i].group)
           /\ \A n \in 1..Len(last.streamed) :
                \E i \in 1..Len(last.result) :
                  last.result[i].group = GroupOf(last.groupBy, last.streamed[n])

\* three records streamed into two groups by two fields, the last group
\* created before the first
GroupsOrderedWitness ==
    /\ last.op = "aggregate" /\ last.err = "nil"
    /\ Len(last.groupBy) = 2 /\ Len(last.streamed) = 3 /\ Len(last.result) = 2
    /\ GroupOf(last.groupBy, last.streamed[1]) = last.result[2].group
    /\ Len(last.result[1].reduction) = 2

\* C36: when a top-level execution call has returned, neither the root
\* query nor a query its MatchFunc passed to SubQuery or SubAggregateQuery
\* holds a bookmark.
NoBookmarkLeft ==
    last.op = "executed" =>
      last.root.bookmark = "nil" /\ last.sub.bookmark = "nil"

SameInEveryOrder ==
    last.op = "ordered" =>
      \A order \in FieldOrders(last.query) :
        LET other == outcomeIn(last.exec, pre, last.query, order, <<"Category", "Name">>)
        IN  /\ other.err = last.err
            /\ other.result = last.result
            /\ other.st = store

\* C39: with goroutines that each make one top-level mutating call and a
\* fair scheduler, every call that has begun returns in the end: the calls
\* that call themselves again after a conflict do not do so for ever.
EveryCallReturns ==
    \A p \in Procs : (procs[p].pc \in {"open", "retry"}) ~> (procs[p].pc = "done")

\* a call has returned nil from its second transaction, the first having
\* met a conflict with a call that has returned too
EveryCallReturnsWitness ==
    \E p, q \in Procs :
      /\ procs[p].pc = "done" /\ procs[p].err = "nil" /\ procs[p].tries = 2
      /\ retries(procs[p].call.op)
      /\ procs[q].pc = "done" /\ procs[q].err = "nil" /\ procs[q].tries = 1

====
